---- MODULE Spec2Model ----
(***************************************************************************)
(* Pledge manager: phone normaliser, PledgeRecord save pipeline, the       *)
(* upload reconciler and the SMS and WhatsApp sends (src/pledges/models.py,*)
(* forms.py, views.py, sms_utils.py, whatsapp_utils.py,                    *)
(* management/commands/update_phone_numbers.py).                           *)
(*                                                                         *)
(* Strings that the code inspects character by character (phone numbers)   *)
(* are sequences of one-character strings.  Decimal amounts are records    *)
(* [kind, w, c]: kind "fin" is the value w + c/100 with c in 0..99, kind   *)
(* "fine" is such a value with further non-zero decimal places, "nan" is   *)
(* Decimal('NaN').                                                         *)
(***************************************************************************)
EXTENDS Integers, Sequences, FiniteSets, TLC

VARIABLES
    records,        \* PledgeRecord table: pk -> row
    messages,       \* SMSMessage table, in insertion order
    upload_logs,    \* UploadLog table, in insertion order
    result,         \* what the last handler was given and what it returned
    phone_number,   \* argument handed to the phone functions
    phone_pc,       \* position of the phone-function driver
    formatted,      \* format_phone_number(phone_number)
    reformatted,    \* format_phone_number(formatted)
    verdict,        \* result of validate_phone_number
    batch,          \* the open upload transaction and its uncommitted tables
    savers,         \* the two concurrent saves, each at its position
    task,           \* the sends in flight, one for each thread
    provider_log    \* the dispatcher calls made: channel, record, provider outcome

phone_vars == <<phone_number, phone_pc, formatted, reformatted, verdict>>

store_vars == <<records, messages, upload_logs, result>>

Idle == [pc |-> "idle"]

\* a request that has not called save
NoSave == [pc |-> "idle", begun |-> 0]

\* no upload transaction is open and none was begun
NoBatch == [pc |-> "idle", begun |-> 0]

\* a request handler and the background thread
Slots == {"request", "worker", "second_worker"}

\* the two requests of a race
Savers == {"first", "second"}

send_vars == <<task, provider_log>>

step_vars == <<batch, savers, task, provider_log>>

vars == <<records, messages, upload_logs, result,
          phone_number, phone_pc, formatted, reformatted, verdict,
          batch, savers, task, provider_log>>

(***************************************************************************)
(* Characters                                                              *)
(***************************************************************************)
\* [0-9] of the regular expressions
AsciiDigits == {"0", "1", "2", "3", "4", "5", "6", "7", "8", "9"}

\* one decimal digit outside ASCII (ARABIC-INDIC DIGIT THREE): \d of a str
\* pattern matches it, [0-9] does not
ArabicThree == "U+0663"

\* \d of a Python 3 str pattern
UnicodeDigits == AsciiDigits \cup {ArabicThree}

\* characters removed by str.strip()
Whitespace == {" ", "\t"}

\* sentinel of a result that has not been computed yet
Unset == <<"unset">>

(***************************************************************************)
(* str helpers                                                             *)
(***************************************************************************)
SetMin(S) == CHOOSE x \in S : \A y \in S : x <= y
SetMax(S) == CHOOSE x \in S : \A y \in S : x >= y

strip(s) ==
    LET keep == {i \in 1..Len(s) : s[i] \notin Whitespace}
    IN  IF keep = {} THEN <<>> ELSE SubSeq(s, SetMin(keep), SetMax(keep))

startswith(s, p) == Len(s) >= Len(p) /\ SubSeq(s, 1, Len(p)) = p

\* s[n:]
DropFirst(s, n) == SubSeq(s, n + 1, Len(s))

\* s[-n:]
TakeLast(s, n) == IF Len(s) <= n THEN s ELSE SubSeq(s, Len(s) - n + 1, Len(s))

\* variant: a short number is not padded
ljust_unpadded(s, n, c) == s

\* s.ljust(n, c)
ljust(s, n, c) ==
    IF Len(s) >= n THEN s ELSE s \o [i \in 1..(n - Len(s)) |-> c]

\* re.sub(r'[^0-9]', '', s)
IsAsciiDigit(ch) == ch \in AsciiDigits
sub_non_digits(s) == SelectSeq(s, IsAsciiDigit)

(***************************************************************************)
(* format_phone_number, models.py:9-43                                     *)
(***************************************************************************)
LocalLen == 10
CountryLen == 12
CountryCode == <<"2", "5", "5">>

ensure_zero(d) == IF startswith(d, <<"0">>) THEN d ELSE <<"0">> \o d

\* slip: the '0' + of line 38 left out
force_length_no_zero(d) ==
    IF Len(d) > LocalLen THEN TakeLast(d, LocalLen - 1)
    ELSE IF Len(d) < LocalLen THEN ljust(d, LocalLen, "0")
    ELSE d

force_length(d) ==
    IF Len(d) > LocalLen THEN <<"0">> \o TakeLast(d, LocalLen - 1)
    ELSE IF Len(d) < LocalLen THEN ljust(d, LocalLen, "0")
    ELSE d

\* slip: the len(phone_digits) == 12 test of line 28 left out
country_to_local_any_length(d) ==
    IF startswith(d, CountryCode)
    THEN <<"0">> \o DropFirst(d, Len(CountryCode))
    ELSE d

country_to_local(d) ==
    IF startswith(d, CountryCode) /\ Len(d) = CountryLen
    THEN <<"0">> \o DropFirst(d, Len(CountryCode))
    ELSE d

format_phone_number(p) ==
    IF p = <<>> THEN p
    ELSE LET phone_str == strip(p)
         IN  IF startswith(phone_str, <<"+">>) THEN phone_str
             ELSE force_length(ensure_zero(country_to_local(sub_non_digits(phone_str))))

(***************************************************************************)
(* validate_phone_number, models.py:46-63                                  *)
(***************************************************************************)
IntlMinTail == 1
IntlMaxTail == 14

AllIn(s, S) == \A i \in 1..Len(s) : s[i] \in S

\* re.match(r'^\+[1-9]\d{1,14}$', s) on a stripped s
match_international(s) ==
    /\ Len(s) >= 2
    /\ s[1] = "+"
    /\ s[2] \in (AsciiDigits \ {"0"})
    /\ Len(s) - 2 >= IntlMinTail
    /\ Len(s) - 2 <= IntlMaxTail
    /\ AllIn(DropFirst(s, 2), UnicodeDigits)

\* slip: the $ anchor of line 62 left out
match_local_unanchored(s) ==
    /\ Len(s) >= LocalLen
    /\ s[1] = "0"
    /\ AllIn(SubSeq(s, 2, LocalLen), UnicodeDigits)

\* re.match(r'^0\d{9}$', s) on a stripped s
match_local(s) ==
    /\ Len(s) = LocalLen
    /\ s[1] = "0"
    /\ AllIn(DropFirst(s, 1), UnicodeDigits)

\* "ok" when the function returns, otherwise the ValidationError raised
validate_phone_number(p) ==
    IF p = <<>> THEN "required"
    ELSE LET phone_str == strip(p)
         IN  IF startswith(phone_str, <<"+">>)
             THEN IF match_international(phone_str) THEN "ok" ELSE "invalid_international"
             ELSE IF match_local(phone_str) THEN "ok" ELSE "invalid_local"

(***************************************************************************)
(* Inputs of the phone functions                                           *)
(***************************************************************************)
MaxBody == 13
MaxHead == 3

Filler == <<"7", "1", "2", "3", "4", "5", "6", "7", "8", "9", "0", "1", "2", "3", "4", "5">>

HeadChars == {"0", "2", "5", "+", "-"}
Heads == UNION {[1..n -> HeadChars] : n \in 0..MaxHead}
Leads == {<<>>, <<" ">>}
Trails == {<<>>, <<" ">>, <<"x">>, <<ArabicThree>>}

Examples ==
    { <<"0","7","1","2","3","4","5","6","7","8">>,
      <<"2","5","5","7","1","2","3","4","5","6","7","8">>,
      <<"7","1","2","3","4","5","6","7","8">>,
      <<"+","2","5","5","7","1","2","3","4","5","6","7","8">>,
      <<"1","2","3","4","5">> }

PhoneInputs ==
    Examples \cup
    { l \o h \o SubSeq(Filler, 1, n) \o t :
        l \in Leads, h \in Heads, n \in 0..MaxBody, t \in Trails }

(***************************************************************************)
(* Driver of the phone functions                                           *)
(***************************************************************************)
NoResult == [op |-> "none"]

InitPhone ==
    /\ records = <<>>
    /\ messages = <<>>
    /\ upload_logs = <<>>
    /\ result = NoResult
    /\ phone_number \in PhoneInputs
    /\ phone_pc = "input"
    /\ formatted = Unset
    /\ reformatted = Unset
    /\ verdict = "none"
    /\ batch = NoBatch
    /\ savers = [s \in Savers |-> NoSave]
    /\ task = [t \in Slots |-> Idle]
    /\ provider_log = <<>>

FormatInput ==
    /\ phone_pc = "input"
    /\ formatted' = format_phone_number(phone_number)
    /\ phone_pc' = "formatted"
    /\ UNCHANGED <<phone_number, reformatted, verdict, store_vars, step_vars>>

FormatAgain ==
    /\ phone_pc = "formatted"
    /\ reformatted' = format_phone_number(formatted)
    /\ phone_pc' = "reformatted"
    /\ UNCHANGED <<phone_number, formatted, verdict, store_vars, step_vars>>

ValidateInput ==
    /\ phone_pc = "input"
    /\ verdict' = validate_phone_number(phone_number)
    /\ phone_pc' = "validated"
    /\ UNCHANGED <<phone_number, formatted, reformatted, store_vars, step_vars>>

ValidateFormatted ==
    /\ phone_pc = "formatted"
    /\ verdict' = validate_phone_number(formatted)
    /\ phone_pc' = "format_validated"
    /\ UNCHANGED <<phone_number, formatted, reformatted, store_vars, step_vars>>

NextPhone == FormatInput \/ FormatAgain \/ ValidateInput \/ ValidateFormatted

SpecPhone == InitPhone /\ [][NextPhone]_vars

(***************************************************************************)
(* Decimal amounts (decimal.Decimal, DecimalField(max_digits=10,           *)
(* decimal_places=2), models.py:70-72)                                     *)
(***************************************************************************)
MaxDigits == 10
DecimalPlaces == 2

Dec(w, c) == [kind |-> "fin", w |-> w, c |-> c]
NaN == [kind |-> "nan", w |-> 0, c |-> 0]
Zero == Dec(0, 0)

\* a - b; a quiet NaN operand gives NaN
dec_sub(a, b) ==
    IF a.kind = "nan" \/ b.kind = "nan" THEN NaN
    ELSE [kind |-> IF a.kind = "fine" \/ b.kind = "fine" THEN "fine" ELSE "fin",
          w |-> IF a.c >= b.c THEN a.w - b.w ELSE a.w - b.w - 1,
          c |-> IF a.c >= b.c THEN a.c - b.c ELSE a.c - b.c + 100]

\* a >= n for a finite a and an integer n
dec_ge(a, n) == a.w >= n

\* largest whole part a DecimalField(10, 2) accepts
MaxWhole == 10 ^ (MaxDigits - DecimalPlaces) - 1

\* DecimalField.clean: finite, at most 8 digits before the point
decimal_valid(a) ==
    /\ a.kind = "fin"
    /\ a.w <= MaxWhole
    /\ (a.w >= -MaxWhole \/ (a.w = -MaxWhole - 1 /\ a.c > 0))

(***************************************************************************)
(* PledgeRecord, models.py:66-133                                          *)
(***************************************************************************)
MaxRecords == 2
MaxDraws == 2

\* primary keys (uuid4 values)
PKs == 1..MaxRecords

MobileMaxLen == 15
TierCeiling == 2
DoubleMin == 100000
SingleMin == 50000
CodeLen == 3

allowed_chars ==
    <<"A", "B", "C", "D", "E", "F", "G", "H", "J", "K", "L",
      "M", "N", "P", "Q", "R", "T", "U", "V", "W", "X", "Y">>

\* variant: k = 2
choices_short(i) ==
    [j \in 1..(CodeLen - 1) |->
        allowed_chars[((i \div (Len(allowed_chars) ^ (CodeLen - j))) % Len(allowed_chars)) + 1]]

\* the i-th outcome of random.choices(allowed_chars, k=3)
choices(i) ==
    [j \in 1..CodeLen |->
        allowed_chars[((i \div (Len(allowed_chars) ^ (CodeLen - j))) % Len(allowed_chars)) + 1]]

\* the outcomes of random.choices the model draws
DrawnCodes == {choices(i) : i \in 0..(MaxDraws - 1)}

\* PledgeRecord(...) before its first save: field defaults of models.py:67-78
NewInstance(mobile, name, pledge, paid, remaining) ==
    [mobile_number |-> mobile, name |-> name, pledge |-> pledge, paid |-> paid,
     remaining |-> remaining, card_capacity |-> 0, card_code |-> <<>>,
     invitation_image_url |-> <<>>,
     normal_message_sent |-> FALSE, whatsapp_sent |-> FALSE]

\* the table with row pk written
Put(recs, pk, inst) ==
    [k \in (DOMAIN recs) \cup {pk} |-> IF k = pk THEN inst ELSE recs[k]]

\* the table without row pk
Remove(recs, pk) == [k \in (DOMAIN recs) \ {pk} |-> recs[k]]

\* uuid.uuid4(): a key no row has; NoPk when the table is full, and then
\* only a save that fails is followed
NoPk == 0
FreshPk(recs) == IF PKs \ DOMAIN recs = {} THEN NoPk ELSE SetMin(PKs \ DOMAIN recs)
Saved(pk, outcomes) == {out \in outcomes : out.ok => pk \in PKs}

\* variant: no uniqueness lookup finds a row
Others_none(recs, pk, field, value) == {}

\* rows other than pk holding the value in the field
Others(recs, pk, field, value) ==
    {o \in DOMAIN recs : o # pk /\ recs[o][field] = value}

\* generate_unique_card_code: the draws on which the loop returns
generate_unique_card_code(recs, pk) ==
    {code \in DrawnCodes : Others(recs, pk, "card_code", code) = {}}

\* variant: thresholds exclusive
tier_exclusive(paid) ==
    IF paid.w > DoubleMin \/ (paid.w = DoubleMin /\ paid.c > 0) THEN 2
    ELSE IF paid.w > SingleMin \/ (paid.w = SingleMin /\ paid.c > 0) THEN 1
    ELSE 0

\* capacity tier of models.py:124-129
tier(paid) ==
    IF dec_ge(paid, DoubleMin) THEN 2
    ELSE IF dec_ge(paid, SingleMin) THEN 1
    ELSE 0

\* Model.full_clean: the fields that fail clean_fields, clean, validate_unique
full_clean(recs, pk, inst) ==
    LET field_errors ==
            {f \in {"mobile_number"} :
                inst.mobile_number = <<>> \/ Len(inst.mobile_number) > MobileMaxLen}
            \cup {f \in {"name"} : inst.name = <<>>}
            \cup {f \in {"pledge", "paid", "remaining"} : ~decimal_valid(inst[f])}
        clean_errors ==
            {f \in {"__all__"} :
                inst.mobile_number # <<>>
                    /\ validate_phone_number(inst.mobile_number) # "ok"}
        unique_errors ==
            {f \in {"mobile_number", "card_code"} \ field_errors :
                Others(recs, pk, f, inst[f]) # {}}
    IN  field_errors \cup clean_errors \cup unique_errors

Raised(recs, e) == [ok |-> FALSE, error |-> e, records |-> recs]

\* variant: card_code carries no unique constraint
persist_code_unconstrained(recs, pk, inst) ==
    IF Others(recs, pk, "mobile_number", inst.mobile_number) # {}
    THEN Raised(recs, "IntegrityError")
    ELSE [ok |-> TRUE, error |-> "", records |-> Put(recs, pk, inst)]

\* super().save(): INSERT or UPDATE under the two unique constraints
persist(recs, pk, inst) ==
    IF \/ Others(recs, pk, "mobile_number", inst.mobile_number) # {}
       \/ Others(recs, pk, "card_code", inst.card_code) # {}
    THEN Raised(recs, "IntegrityError")
    ELSE [ok |-> TRUE, error |-> "", records |-> Put(recs, pk, inst)]

\* variant: the row is written before it is validated
finish_save_persists_first(recs, pk, inst) ==
    LET i3 == [inst EXCEPT !.remaining = dec_sub(inst.pledge, inst.paid)]
    IN  IF i3.card_capacity <= TierCeiling /\ i3.paid.kind = "nan"
        THEN Raised(recs, "InvalidOperation")
        ELSE LET i4 == [i3 EXCEPT !.card_capacity =
                            IF @ <= TierCeiling THEN tier(i3.paid) ELSE @]
             IN  IF full_clean(recs, pk, i4) # {}
                 THEN Raised(Put(recs, pk, i4), "ValidationError")
                 ELSE persist(recs, pk, i4)

\* variant: remaining is not recomputed
finish_save_keeps_remaining(recs, pk, inst) ==
    IF inst.card_capacity <= TierCeiling /\ inst.paid.kind = "nan"
    THEN Raised(recs, "InvalidOperation")
    ELSE LET i4 == [inst EXCEPT !.card_capacity =
                        IF @ <= TierCeiling THEN tier(inst.paid) ELSE @]
         IN  IF full_clean(recs, pk, i4) # {}
             THEN Raised(recs, "ValidationError")
             ELSE persist(recs, pk, i4)

\* models.py:118-133, after the card code is settled
finish_save(recs, pk, inst) ==
    LET i3 == [inst EXCEPT !.remaining = dec_sub(inst.pledge, inst.paid)]
    IN  IF i3.card_capacity <= TierCeiling /\ i3.paid.kind = "nan"
        THEN Raised(recs, "InvalidOperation")
        ELSE LET i4 == [i3 EXCEPT !.card_capacity =
                            IF @ <= TierCeiling THEN tier(i3.paid) ELSE @]
             IN  IF full_clean(recs, pk, i4) # {}
                 THEN Raised(recs, "ValidationError")
                 ELSE persist(recs, pk, i4)

\* variant: the number is stored as given
save_unformatted(recs, pk, inst) ==
    LET codes == IF inst.card_code = <<>> \/ strip(inst.card_code) = <<>>
                 THEN generate_unique_card_code(recs, pk)
                 ELSE {inst.card_code}
    IN  {finish_save(recs, pk, [inst EXCEPT !.card_code = code]) : code \in codes}

\* variant: a card code is generated on every save
save_regenerates(recs, pk, inst) ==
    LET i1 == IF inst.mobile_number # <<>>
              THEN [inst EXCEPT !.mobile_number = format_phone_number(@)]
              ELSE inst
    IN  {finish_save(recs, pk, [i1 EXCEPT !.card_code = code]) :
            code \in generate_unique_card_code(recs, pk)}

\* PledgeRecord.save: the outcomes, one for each card code the loop can return
save(recs, pk, inst) ==
    LET i1 == IF inst.mobile_number # <<>>
              THEN [inst EXCEPT !.mobile_number = format_phone_number(@)]
              ELSE inst
        codes == IF i1.card_code = <<>> \/ strip(i1.card_code) = <<>>
                 THEN generate_unique_card_code(recs, pk)
                 ELSE {i1.card_code}
    IN  {finish_save(recs, pk, i2) : i2 \in {[i1 EXCEPT !.card_code = code] : code \in codes}}

(***************************************************************************)
(* PledgeRecord.save of a new instance, statement by statement, in two     *)
(* requests at once.  Each step reads and writes the table as it is then.  *)
(***************************************************************************)
MaxSaves == 2

\* the key of the instance a saver builds: one no row and no other saver has
SaverPk(s) ==
    LET taken == DOMAIN records
                     \cup {savers[t].pk : t \in {u \in Savers \ {s} : savers[u].pc # "idle"}}
    IN  IF PKs \ taken = {} THEN NoPk ELSE SetMin(PKs \ taken)

\* PledgeRecord(...) and models.py:110-112: the instance with its number
\* formatted, about to look for a card code
save_begin(s, f) ==
    /\ savers[s].pc \in {"idle", "saved", "rejected"}
    /\ savers[s].begun < MaxSaves
    /\ LET inst == NewInstance(f.mobile_number, f.name, f.pledge, f.paid, Zero)
           i1 == IF inst.mobile_number # <<>>
                 THEN [inst EXCEPT !.mobile_number = format_phone_number(@)]
                 ELSE inst
       IN  savers' = [savers EXCEPT ![s] =
                         [pc |-> "draw", begun |-> savers[s].begun + 1, pk |-> SaverPk(s),
                          inst |-> i1, error |-> "", drawn |-> <<>>]]
    /\ UNCHANGED <<store_vars, phone_vars, batch, send_vars>>

\* one pass of the while loop of models.py:94-101: a code is drawn; the loop
\* returns it when no other row holds it and goes round otherwise
save_draw(s) ==
    /\ savers[s].pc = "draw"
    /\ \E code \in DrawnCodes :
           IF Others(records, savers[s].pk, "card_code", code) = {}
           THEN savers' = [savers EXCEPT ![s].pc = "clean", ![s].drawn = code,
                                         ![s].inst.card_code = code]
           ELSE savers' = [savers EXCEPT ![s].drawn = code]
    /\ UNCHANGED <<store_vars, phone_vars, batch, send_vars>>

\* models.py:118-132: remaining, capacity, full_clean
save_clean(s) ==
    /\ savers[s].pc = "clean"
    /\ LET inst == savers[s].inst
           i3 == [inst EXCEPT !.remaining = dec_sub(inst.pledge, inst.paid)]
           i4 == [i3 EXCEPT !.card_capacity =
                      IF @ <= TierCeiling THEN tier(i3.paid) ELSE @]
       IN  IF i3.card_capacity <= TierCeiling /\ i3.paid.kind = "nan"
           THEN savers' = [savers EXCEPT ![s].pc = "rejected",
                                         ![s].error = "InvalidOperation"]
           ELSE IF full_clean(records, savers[s].pk, i4) # {}
           THEN savers' = [savers EXCEPT ![s].pc = "rejected", ![s].inst = i4,
                                         ![s].error = "ValidationError"]
           ELSE savers' = [savers EXCEPT ![s].pc = "insert", ![s].inst = i4]
    /\ UNCHANGED <<store_vars, phone_vars, batch, send_vars>>

\* models.py:133, super().save(): the INSERT under the unique constraints
save_insert(s) ==
    /\ savers[s].pc = "insert"
    /\ LET out == persist(records, savers[s].pk, savers[s].inst)
       IN  /\ out.ok => savers[s].pk \in PKs
           /\ records' = out.records
           /\ savers' = [savers EXCEPT ![s].pc = IF out.ok THEN "saved" ELSE "rejected",
                                       ![s].error = out.error]
    /\ UNCHANGED <<messages, upload_logs, result, phone_vars, batch, send_vars>>

(***************************************************************************)
(* Handlers that save one record                                           *)
(***************************************************************************)
Outcome(op, pk, out) ==
    [op |-> op, pk |-> pk, ok |-> out.ok, error |-> out.error]

\* PledgeRecord(...).save() on a new instance (objects.create, admin add)
create_record(f) ==
    /\ LET pk == FreshPk(records)
           inst == NewInstance(f.mobile_number, f.name, f.pledge, f.paid, Zero)
       IN  \E out \in Saved(pk, save(records, pk, inst)) :
               /\ records' = out.records
               /\ result' = Outcome("create", pk, out)
    /\ UNCHANGED <<messages, upload_logs, phone_vars, step_vars>>

\* record.<field> = value; record.save() on a loaded instance
\* (admin change, manual capacity override)
save_record(pk, field, value) ==
    /\ pk \in DOMAIN records
    /\ LET inst == [records[pk] EXCEPT ![field] = value]
       IN  \E out \in save(records, pk, inst) :
               /\ records' = out.records
               /\ result' = Outcome("save", pk, out)
    /\ UNCHANGED <<messages, upload_logs, phone_vars, step_vars>>

\* PledgeRecordForm.clean_mobile_number on the stripped field value:
\* "ok", or the exception that leaves the method
clean_mobile_number(recs, pk, mobile) ==
    LET formatted_number == format_phone_number(strip(mobile))
    IN  IF validate_phone_number(formatted_number) # "ok" THEN "NameError"
        ELSE IF Others(recs, pk, "mobile_number", formatted_number) # {} THEN "NameError"
        ELSE "ok"

\* form.is_valid() of edit_record: "valid", "invalid", or the exception
is_valid(recs, pk, post) ==
    LET mobile == strip(post.mobile_number)
        field_errors ==
            {f \in {"name"} : strip(post.name) = <<>>}
            \cup {f \in {"mobile_number"} : mobile = <<>> \/ Len(mobile) > MobileMaxLen}
            \cup {f \in {"pledge", "paid"} : ~decimal_valid(post[f])}
    IN  IF "mobile_number" \notin field_errors
            /\ clean_mobile_number(recs, pk, mobile) # "ok"
        THEN "NameError"
        ELSE IF field_errors # {} THEN "invalid" ELSE "valid"

\* edit_record, views.py:189-215, POST
edit_record(pk, post) ==
    /\ pk \in DOMAIN records
    /\ LET checked == is_valid(records, pk, post)
           inst == [records[pk] EXCEPT
                       !.name = strip(post.name),
                       !.mobile_number = format_phone_number(strip(post.mobile_number)),
                       !.pledge = post.pledge,
                       !.paid = post.paid]
       IN  IF checked # "valid"
           THEN /\ records' = records
                /\ result' = Outcome("edit", pk, Raised(records, checked))
           ELSE \E out \in save(records, pk, inst) :
                    /\ records' = out.records
                    /\ result' = Outcome("edit", pk, out)
    /\ UNCHANGED <<messages, upload_logs, phone_vars, step_vars>>

\* the SMSMessage rows whose pledge_record is pk
Referencing(rows, pk) == {i \in DOMAIN rows : rows[i].pledge_record = pk}

\* variant: the foreign key does not cascade
delete_record_keeps_messages(pk) ==
    /\ pk \in DOMAIN records
    /\ records' = Remove(records, pk)
    /\ result' = [op |-> "delete", pk |-> pk, ok |-> TRUE, error |-> "",
                  deleted |-> 1]
    /\ UNCHANGED <<messages, upload_logs, phone_vars, step_vars>>

\* delete_record, views.py:218-226; deleted is the number of rows
\* record.delete() reports
delete_record(pk) ==
    /\ pk \in DOMAIN records
    /\ records' = Remove(records, pk)
    /\ messages' = SelectSeq(messages, LAMBDA m : m.pledge_record # pk)
    /\ result' = [op |-> "delete", pk |-> pk, ok |-> TRUE, error |-> "",
                  deleted |-> 1 + Cardinality(Referencing(messages, pk))]
    /\ UNCHANGED <<upload_logs, phone_vars, step_vars>>

\* the loop of update_phone_numbers over the loaded records: the tables it
\* can leave, each with updated_count
RECURSIVE update_numbers(_, _)
update_numbers(recs, pks) ==
    IF pks = {} THEN {[records |-> recs, updated |-> 0]}
    ELSE LET pk == SetMin(pks)
             original_number == recs[pk].mobile_number
             formatted_number == format_phone_number(original_number)
         IN  IF formatted_number = original_number
             THEN update_numbers(recs, pks \ {pk})
             ELSE UNION {
                    {[records |-> r.records,
                      updated |-> r.updated + (IF out.ok THEN 1 ELSE 0)] :
                        r \in update_numbers(out.records, pks \ {pk})} :
                    out \in save(recs, pk,
                                 [recs[pk] EXCEPT !.mobile_number = formatted_number])}

\* manage.py update_phone_numbers, Command.handle
update_phone_numbers ==
    /\ \E r \in update_numbers(records, DOMAIN records) :
          /\ records' = r.records
          /\ result' = [op |-> "update_phone_numbers", pk |-> NoPk, ok |-> TRUE,
                        error |-> "", updated |-> r.updated]
    /\ UNCHANGED <<messages, upload_logs, phone_vars, step_vars>>

(***************************************************************************)
(* Uploaded datasets, views.py:86-186                                      *)
(*                                                                         *)
(* A header is a sequence of words and separators (" ", "_"); a column of  *)
(* the file is its header and the field its cells hold; a row gives the    *)
(* text str(cell) of each field.                                           *)
(***************************************************************************)
MaxRows == 3
MaxUploads == 1

\* str.lower() on the words headers are written with
lower_word(w) ==
    CASE w = "Name" -> "name"
      [] w = "NAME" -> "name"
      [] w = "Mobile" -> "mobile"
      [] w = "Number" -> "number"
      [] w = "Phone" -> "phone"
      [] w = "Pledge" -> "pledge"
      [] w = "Paid" -> "paid"
      [] w = "Amount" -> "amount"
      [] w = "Balance" -> "balance"
      [] w = "Remaining" -> "remaining"
      [] w = "Payment" -> "payment"
      [] w = "Tel" -> "tel"
      [] OTHER -> w

\* df.columns.str.strip().str.lower().str.replace(' ', '_'), one header
normalize_column(h) ==
    LET stripped == strip(h)
    IN  [i \in 1..Len(stripped) |->
            IF stripped[i] = " " THEN "_" ELSE lower_word(stripped[i])]

\* column_mapping, views.py:92-98
column_mapping ==
    [name |-> << <<"name">>, <<"full", "_", "name">>, <<"person", "_", "name">> >>,
     mobile_number |-> << <<"mobile", "_", "number">>, <<"mobile">>, <<"phone">>,
                          <<"phone", "_", "number">>, <<"contact">> >>,
     pledge |-> << <<"pledge">>, <<"pledged">>, <<"pledge", "_", "amount">> >>,
     paid |-> << <<"paid">>, <<"amount", "_", "paid">>, <<"paid", "_", "amount">> >>,
     remaining |-> << <<"remaining">>, <<"balance">>, <<"remaining", "_", "amount">> >>]

required_columns == {"name", "mobile_number", "pledge", "paid"}

\* df.columns after line 89
df_columns(file) == {normalize_column(file.columns[i].header) : i \in DOMAIN file.columns}

\* actual_columns, views.py:101-106: the first alias of each field that is a column
actual_columns(file) ==
    LET columns == df_columns(file)
        present(std) ==
            {i \in DOMAIN column_mapping[std] : column_mapping[std][i] \in columns}
        found == {std \in DOMAIN column_mapping : present(std) # {}}
    IN  [std \in found |-> column_mapping[std][SetMin(present(std))]]

missing_columns(file) == required_columns \ DOMAIN actual_columns(file)

\* str(row[column]): the text of the row's cell in the column named col
cell(file, row, col) ==
    LET i == CHOOSE j \in DOMAIN file.columns :
                 normalize_column(file.columns[j].header) = col
    IN  row[file.columns[i].holds]

\* str.lower() on the letters of the null markers
lower_char(ch) ==
    CASE ch = "N" -> "n"
      [] ch = "A" -> "a"
      [] ch = "O" -> "o"
      [] ch = "E" -> "e"
      [] OTHER -> ch

lower(t) == [i \in 1..Len(t) |-> lower_char(t[i])]

NullMarkers == {<<"n", "a", "n">>, <<"n", "o", "n", "e">>}

DigitValue(ch) ==
    CASE ch = "0" -> 0 [] ch = "1" -> 1 [] ch = "2" -> 2 [] ch = "3" -> 3
      [] ch = "4" -> 4 [] ch = "5" -> 5 [] ch = "6" -> 6 [] ch = "7" -> 7
      [] ch = "8" -> 8 [] ch = "9" -> 9

RECURSIVE ToInt(_)
ToInt(d) ==
    IF d = <<>> THEN 0
    ELSE 10 * ToInt(SubSeq(d, 1, Len(d) - 1)) + DigitValue(d[Len(d)])

IsComma(ch) == ch = ","
NotComma(ch) == ch # ","

\* decimal.Decimal(text) on plain decimal numerals and 'nan':
\* [ok, value], ok FALSE for decimal.InvalidOperation
to_decimal(text) ==
    LET t == strip(text)
        neg == Len(t) > 0 /\ t[1] = "-"
        body == IF neg THEN DropFirst(t, 1) ELSE t
        dots == {i \in 1..Len(body) : body[i] = "."}
        whole == IF dots = {} THEN body ELSE SubSeq(body, 1, SetMin(dots) - 1)
        frac == IF dots = {} THEN <<>> ELSE DropFirst(body, SetMin(dots))
        cents == ToInt(SubSeq(ljust(frac, DecimalPlaces, "0"), 1, DecimalPlaces))
        finer == \E i \in (DecimalPlaces + 1)..Len(frac) : frac[i] # "0"
        kind == IF finer THEN "fine" ELSE "fin"
    IN  IF lower(t) = <<"n", "a", "n">> THEN [ok |-> TRUE, value |-> NaN]
        ELSE IF \/ Cardinality(dots) > 1
                \/ Len(whole) + Len(frac) = 0
                \/ ~AllIn(whole, AsciiDigits)
                \/ ~AllIn(frac, AsciiDigits)
        THEN [ok |-> FALSE, value |-> NaN]
        ELSE IF neg /\ cents > 0
        THEN [ok |-> TRUE,
              value |-> [kind |-> kind, w |-> -ToInt(whole) - 1, c |-> 100 - cents]]
        ELSE [ok |-> TRUE,
              value |-> [kind |-> kind,
                         w |-> IF neg THEN -ToInt(whole) ELSE ToInt(whole),
                         c |-> cents]]

\* Decimal(str(cell).replace(',', ''))
parse_amount(text) == to_decimal(SelectSeq(text, NotComma))

\* state of the loop of views.py:121-165; trace keeps, for each row done, how
\* the row ended and the table and counters it left
Loop(recs, new, updated, errors, trace) ==
    [records |-> recs, new_records |-> new, updated_records |-> updated,
     errors |-> errors, trace |-> trace]

Done(st, outcome, recs, new, updated, errors) ==
    Loop(recs, new, updated, errors,
         Append(st.trace, [outcome |-> outcome, records |-> recs, new_records |-> new,
                           updated_records |-> updated, errors |-> errors]))

\* variant: a failing row is also counted as updated
RowError_counted(st, index, e) ==
    Done(st, "error", st.records, st.new_records, st.updated_records + 1,
         Append(st.errors, [row |-> index + 1, error |-> e]))

\* the except clause, views.py:164-165
RowError(st, index, e) ==
    Done(st, "error", st.records, st.new_records, st.updated_records,
         Append(st.errors, [row |-> index + 1, error |-> e]))

\* variant: a skipped row leaves an error entry
RowSkipped_reported(st) ==
    Done(st, "skipped", st.records, st.new_records, st.updated_records,
         Append(st.errors, [row |-> Len(st.trace) + 1, error |-> "skipped"]))

\* the continue of views.py:139-140
RowSkipped(st) ==
    Done(st, "skipped", st.records, st.new_records, st.updated_records, st.errors)

\* variant: the update branch counts the row as new
upsert_recounted(st, index, mobile, name, pledge, paid, remaining) ==
    LET held == {pk \in DOMAIN st.records : st.records[pk].mobile_number = mobile}
    IN  IF held = {}
        THEN LET pk == FreshPk(st.records)
                 inst == NewInstance(mobile, name, pledge, paid, remaining)
             IN  {IF out.ok
                  THEN Done(st, "new", out.records, st.new_records + 1,
                            st.updated_records, st.errors)
                  ELSE RowError(st, index, out.error) :
                     out \in Saved(pk, save(st.records, pk, inst))}
        ELSE LET pk == CHOOSE k \in held : TRUE
                 inst == [st.records[pk] EXCEPT !.name = name, !.pledge = pledge,
                                               !.paid = paid, !.remaining = remaining]
             IN  {IF out.ok
                  THEN Done(st, "new", out.records, st.new_records + 1,
                            st.updated_records, st.errors)
                  ELSE RowError(st, index, out.error) :
                     out \in save(st.records, pk, inst)}

\* get_or_create and the update branch, views.py:143-162: the loop states
\* the row can leave behind
upsert(st, index, mobile, name, pledge, paid, remaining) ==
    LET held == {pk \in DOMAIN st.records : st.records[pk].mobile_number = mobile}
    IN  IF held = {}
        THEN LET pk == FreshPk(st.records)
                 inst == NewInstance(mobile, name, pledge, paid, remaining)
             IN  {IF out.ok
                  THEN Done(st, "new", out.records, st.new_records + 1,
                            st.updated_records, st.errors)
                  ELSE RowError(st, index, out.error) :
                     out \in Saved(pk, save(st.records, pk, inst))}
        ELSE LET pk == CHOOSE k \in held : TRUE
                 inst == [st.records[pk] EXCEPT !.name = name, !.pledge = pledge,
                                               !.paid = paid, !.remaining = remaining]
             IN  {IF out.ok
                  THEN Done(st, "updated", out.records, st.new_records,
                            st.updated_records + 1, st.errors)
                  ELSE RowError(st, index, out.error) :
                     out \in save(st.records, pk, inst)}

\* one pass of the loop body, views.py:122-165, on the row at 0-based index
process_row(st, file, cols, row, index) ==
    LET mobile_number == strip(cell(file, row, cols["mobile_number"]))
        name == strip(cell(file, row, cols["name"]))
        pledge == parse_amount(cell(file, row, cols["pledge"]))
        paid == parse_amount(cell(file, row, cols["paid"]))
        given == IF "remaining" \in DOMAIN cols
                 THEN parse_amount(cell(file, row, cols["remaining"]))
                 ELSE [ok |-> TRUE, value |-> dec_sub(pledge.value, paid.value)]
        formatted_number ==
            IF mobile_number # <<>> /\ lower(mobile_number) \notin NullMarkers
            THEN format_phone_number(mobile_number)
            ELSE mobile_number
    IN  IF ~pledge.ok \/ ~paid.ok \/ ~given.ok
        THEN {RowError(st, index, "InvalidOperation")}
        ELSE IF formatted_number = <<>> \/ lower(formatted_number) \in NullMarkers
        THEN {RowSkipped(st)}
        ELSE upsert(st, index, formatted_number, name,
                    pledge.value, paid.value, given.value)

\* the loop states after rows index+1.. of the file, from the loop states S
RECURSIVE process_rows(_, _, _, _)
process_rows(S, file, cols, index) ==
    IF index >= Len(file.rows) THEN S
    ELSE process_rows(
             UNION {process_row(st, file, cols, file.rows[index + 1], index) : st \in S},
             file, cols, index + 1)

\* views.py:167-186
report(file, st) ==
    [total_records |-> Len(file.rows), new_records |-> st.new_records,
     updated_records |-> st.updated_records, errors |-> st.errors]

\* the text "; " between two entries of the error text
Separator == [text |-> "; "]

\* variant: the entries are put one after the other
join_unseparated(sep, parts) == parts

\* sep.join(parts): a text is the sequence of its pieces; '' is <<>>
join(sep, parts) ==
    [i \in 1..(IF parts = <<>> THEN 0 ELSE 2 * Len(parts) - 1) |->
        IF i % 2 = 1 THEN parts[(i + 1) \div 2] ELSE sep]

\* UploadLog.objects.create(...), views.py:168-174
upload_log(file, st) ==
    [filename |-> file.filename, total_records |-> Len(file.rows),
     new_records |-> st.new_records, updated_records |-> st.updated_records,
     errors |-> IF st.errors # <<>> THEN join(Separator, st.errors) ELSE <<>>]

\* variant: the missing-columns failure is logged
process_upload_data_logged(file) ==
    /\ Len(upload_logs) < MaxUploads
    /\ IF missing_columns(file) # {}
       THEN /\ UNCHANGED records
            /\ upload_logs' = Append(upload_logs,
                                     upload_log(file, Loop(records, 0, 0, <<>>, <<>>)))
            /\ result' = [op |-> "upload", pk |-> NoPk, ok |-> FALSE, error |-> "ValueError",
                          file |-> file]
       ELSE \E st \in process_rows({Loop(records, 0, 0, <<>>, <<>>)}, file,
                                   actual_columns(file), 0) :
                /\ records' = st.records
                /\ upload_logs' = Append(upload_logs, upload_log(file, st))
                /\ result' = [op |-> "upload", pk |-> NoPk, ok |-> TRUE, error |-> "",
                              file |-> file, report |-> report(file, st),
                              trace |-> st.trace]
    /\ UNCHANGED <<messages, phone_vars, step_vars>>

\* process_upload_data(df, filename), called by upload_file; no upload is
\* followed once the log table holds MaxUploads rows
process_upload_data(file) ==
    /\ Len(upload_logs) < MaxUploads
    /\ IF missing_columns(file) # {}
       THEN /\ UNCHANGED <<records, upload_logs>>
            /\ result' = [op |-> "upload", pk |-> NoPk, ok |-> FALSE, error |-> "ValueError",
                          file |-> file]
       ELSE \E st \in process_rows({Loop(records, 0, 0, <<>>, <<>>)}, file,
                                   actual_columns(file), 0) :
                /\ records' = st.records
                /\ upload_logs' = Append(upload_logs, upload_log(file, st))
                /\ result' = [op |-> "upload", pk |-> NoPk, ok |-> TRUE, error |-> "",
                              file |-> file, report |-> report(file, st),
                              trace |-> st.trace]
    /\ UNCHANGED <<messages, phone_vars, step_vars>>

(***************************************************************************)
(* The upload transaction step by step, views.py:120-174.  The rows work   *)
(* on the transaction's own view of the tables (batch.st.records,          *)
(* batch.log); records and upload_logs are what every other connection     *)
(* reads.                                                                  *)
(***************************************************************************)
MaxBatches == 2

\* entering `with transaction.atomic()` after the column checks passed
begin_upload(file) ==
    /\ batch.pc \in {"idle", "committed", "rolled_back"}
    /\ batch.begun < MaxBatches
    /\ missing_columns(file) = {}
    /\ batch' = [pc |-> "rows", begun |-> batch.begun + 1, file |-> file, index |-> 0,
                 st |-> Loop(records, 0, 0, <<>>, <<>>)]
    /\ UNCHANGED <<store_vars, phone_vars, savers, send_vars>>

\* variant: no transaction, every row is committed as it is written
upload_row_autocommit ==
    /\ batch.pc = "rows"
    /\ batch.index < Len(batch.file.rows)
    /\ \E st \in process_row(batch.st, batch.file, actual_columns(batch.file),
                              batch.file.rows[batch.index + 1], batch.index) :
           /\ batch' = [batch EXCEPT !.st = st, !.index = @ + 1]
           /\ records' = st.records
    /\ UNCHANGED <<messages, upload_logs, result, phone_vars, savers, send_vars>>

\* one pass of the loop body inside the transaction
upload_row ==
    /\ batch.pc = "rows"
    /\ batch.index < Len(batch.file.rows)
    /\ \E st \in process_row(batch.st, batch.file, actual_columns(batch.file),
                              batch.file.rows[batch.index + 1], batch.index) :
           batch' = [batch EXCEPT !.st = st, !.index = @ + 1]
    /\ UNCHANGED <<store_vars, phone_vars, savers, send_vars>>

\* UploadLog.objects.create(...) after the loop, still inside the transaction
upload_write_log ==
    /\ batch.pc = "rows"
    /\ batch.index = Len(batch.file.rows)
    /\ batch' = [pc |-> "log", begun |-> batch.begun, file |-> batch.file,
                 index |-> batch.index, st |-> batch.st,
                 log |-> upload_log(batch.file, batch.st)]
    /\ UNCHANGED <<store_vars, phone_vars, savers, send_vars>>

\* leaving the with block: the transaction commits
upload_commit ==
    /\ batch.pc = "log"
    /\ batch' = [batch EXCEPT !.pc = "committed"]
    /\ records' = batch.st.records
    /\ upload_logs' = Append(upload_logs, batch.log)
    /\ result' = [op |-> "upload", pk |-> NoPk, ok |-> TRUE, error |-> "",
                  report |-> report(batch.file, batch.st)]
    /\ UNCHANGED <<messages, phone_vars, savers, send_vars>>

\* the block is left by an exception, or the process dies inside it: the
\* transaction is rolled back
upload_interrupt ==
    /\ batch.pc \in {"rows", "log"}
    /\ batch' = [batch EXCEPT !.pc = "rolled_back"]
    /\ UNCHANGED <<store_vars, phone_vars, savers, send_vars>>

(***************************************************************************)
(* Single sends, views.py:253-274 and 476-494                              *)
(***************************************************************************)
MaxMessages == 1

\* SMSMessage.objects.create(...) of sms_utils.py:49-56
sms_record(pk, inst, message, status) ==
    [pledge_record |-> pk, recipient_name |-> inst.name,
     recipient_mobile |-> inst.mobile_number,
     message_type |-> IF message = "default" THEN "wedding_invitation" ELSE "custom",
     status |-> status]

\* send_sms: message is the POSTed template ("default" when absent,
\* "bad_template" when str.format raises on it), provider what the client does
send_sms(pk, message, provider) ==
    /\ pk \in DOMAIN records
    /\ IF message = "bad_template"
       THEN /\ UNCHANGED <<records, messages>>
            /\ result' = [op |-> "send_sms", pk |-> pk, ok |-> FALSE, error |-> "KeyError"]
       ELSE /\ Len(messages) < MaxMessages
            /\ IF provider = "raises"
               THEN /\ messages' = Append(messages,
                                          sms_record(pk, records[pk], message, "failed"))
                    /\ UNCHANGED records
                    /\ result' = [op |-> "send_sms", pk |-> pk, ok |-> FALSE,
                                  error |-> "provider"]
               ELSE /\ messages' = Append(messages,
                                          sms_record(pk, records[pk], message, "sent"))
                    /\ \E out \in save(records, pk,
                                       [records[pk] EXCEPT !.normal_message_sent = TRUE]) :
                           /\ records' = out.records
                           /\ result' = Outcome("send_sms", pk, out)
    /\ UNCHANGED <<upload_logs, phone_vars, step_vars>>

\* WhatsAppService.format_phone_for_whatsapp; <<>> stands for None
format_phone_for_whatsapp(p) ==
    IF p = <<>> THEN <<>>
    ELSE LET phone_str == strip(p)
         IN  IF startswith(phone_str, <<"+">>) THEN DropFirst(phone_str, 1)
             ELSE IF startswith(phone_str, <<"0">>) /\ Len(phone_str) = LocalLen
             THEN CountryCode \o DropFirst(phone_str, 1)
             ELSE IF startswith(phone_str, CountryCode) /\ Len(phone_str) = CountryLen
             THEN phone_str
             ELSE <<>>

\* the URL of whatsapp_utils.py:160-184, by the parts that vary
image_url(inst) == <<"invite_">> \o inst.name \o <<"_">> \o inst.card_code

\* send_whatsapp: image says whether the image is drawn and written,
\* provider what send_whatsapp_template does
send_whatsapp(pk, image, provider) ==
    /\ pk \in DOMAIN records
    /\ IF format_phone_for_whatsapp(records[pk].mobile_number) = <<>>
       THEN /\ UNCHANGED records
            /\ result' = [op |-> "send_whatsapp", pk |-> pk, ok |-> FALSE, error |-> "phone"]
       ELSE IF image = "fails"
       THEN /\ UNCHANGED records
            /\ result' = [op |-> "send_whatsapp", pk |-> pk, ok |-> FALSE, error |-> "image"]
       ELSE \E drawn \in save(records, pk,
                              [records[pk] EXCEPT !.invitation_image_url = image_url(records[pk])]) :
                IF ~drawn.ok
                THEN /\ UNCHANGED records
                     /\ result' = [op |-> "send_whatsapp", pk |-> pk, ok |-> FALSE,
                                   error |-> "image"]
                ELSE IF provider # "ok"
                THEN /\ records' = drawn.records
                     /\ result' = [op |-> "send_whatsapp", pk |-> pk, ok |-> FALSE,
                                   error |-> provider]
                ELSE \E out \in save(drawn.records, pk,
                                     [drawn.records[pk] EXCEPT !.whatsapp_sent = TRUE]) :
                         /\ records' = out.records
                         /\ result' = Outcome("send_whatsapp", pk, out)
    /\ UNCHANGED <<messages, upload_logs, phone_vars, step_vars>>

(***************************************************************************)
(* Sends step by step: a request handler and a background thread, each     *)
(* holding the copies of the records it fetched.  pc "call": about to call *)
(* the dispatcher on the first copy of the queue; "pending": the Message   *)
(* row is created and the provider call is outstanding; "returned": the    *)
(* dispatcher has returned to its caller.                                  *)
(***************************************************************************)
MaxCalls == 2

SmsOps == {"send_sms", "send_bulk_sms", "background_sms"}
ForwardOps == {"forward_sms", "forward_sms_modal"}
WhatsAppOps == {"send_whatsapp", "send_bulk_whatsapp", "background_whatsapp"}
\* callers that go on to the next record after a dispatcher call
LoopOps == {"send_bulk_sms", "background_sms", "send_bulk_whatsapp", "background_whatsapp"}

ForwardedGuest == <<"Forwarded", " ", "Guest">>
NoRecipient == [number |-> <<>>, name |-> <<>>]

\* list(queryset): copies of the rows, here in key order
RECURSIVE Snapshot(_, _)
Snapshot(recs, pks) ==
    IF pks \cap DOMAIN recs = {} THEN <<>>
    ELSE LET pk == SetMin(pks \cap DOMAIN recs)
         IN  <<[pk |-> pk, inst |-> recs[pk]]>> \o Snapshot(recs, pks \ {pk})

\* a caller with the copies it is to send to; one with none has nothing to do
Task(op, queue, message, to) ==
    IF queue = <<>> THEN Idle
    ELSE [pc |-> "call", op |-> op, queue |-> queue, message |-> message, to |-> to,
          row |-> 0, call |-> 0, success |-> FALSE, sent |-> {}]

\* the copies a caller has still to send to
Ahead(t) == IF task[t].pc = "idle" THEN 0 ELSE Len(task[t].queue)

\* dispatcher calls made so far, and the SMSMessage rows created so far
Calls == Len(provider_log)
RowsCreated ==
    Cardinality({i \in DOMAIN provider_log : provider_log[i].channel \in {"sms", "forward"}})

Start(t, op, queue, message, to) ==
    /\ task[t].pc = "idle"
    /\ queue # <<>>
    /\ \A u \in Slots \ {t} : Calls + Ahead(u) + Len(queue) <= MaxCalls
    /\ task' = [task EXCEPT ![t] = Task(op, queue, message, to)]
    /\ UNCHANGED <<store_vars, phone_vars, batch, savers, provider_log>>

\* views.send_sms up to the dispatcher call
send_sms_request(pk, message) ==
    /\ pk \in DOMAIN records
    /\ Start("request", "send_sms", Snapshot(records, {pk}), message, NoRecipient)

\* views.send_bulk_sms up to the first dispatcher call
send_bulk_sms_request(pks, message) ==
    /\ pks # {}
    /\ Start("request", "send_bulk_sms", Snapshot(records, pks), message, NoRecipient)

\* views.forward_sms with a valid form, up to the dispatcher call
forward_sms_request(pk, post) ==
    /\ pk \in DOMAIN records
    /\ post.number # <<>>
    /\ Len(post.number) <= 20
    /\ validate_phone_number(format_phone_number(post.number)) = "ok"
    /\ Start("request", "forward_sms", Snapshot(records, {pk}), post.message,
             [number |-> format_phone_number(post.number), name |-> post.name])

\* views.forward_sms_modal up to the dispatcher call
forward_sms_modal_request(pk, number) ==
    /\ pk \in DOMAIN records
    /\ strip(number) # <<>>
    /\ Start("request", "forward_sms_modal", Snapshot(records, {pk}), "default",
             [number |-> strip(number), name |-> ForwardedGuest])

\* views.send_whatsapp up to the dispatcher call
send_whatsapp_request(pk) ==
    /\ pk \in DOMAIN records
    /\ Start("request", "send_whatsapp", Snapshot(records, {pk}), "default", NoRecipient)

\* views.send_bulk_whatsapp: the copies already marked sent are passed over
send_bulk_whatsapp_request(pks) ==
    /\ pks # {}
    /\ Start("request", "send_bulk_whatsapp",
             SelectSeq(Snapshot(records, pks), LAMBDA c : ~c.inst.whatsapp_sent),
             "default", NoRecipient)

\* the threads that run a background worker
Workers == {"worker", "second_worker"}

\* views.send_background_sms_all with t the thread it starts: the thread is
\* started on the unsent rows, whatever other thread is running
send_background_sms_all_in(t) ==
    LET unsent == {pk \in DOMAIN records : ~records[pk].normal_message_sent}
    IN  /\ unsent # {}
        /\ Start(t, "background_sms", Snapshot(records, unsent), "default",
                 NoRecipient)

\* views.send_background_sms_all while no other worker thread runs
send_background_sms_all == send_background_sms_all_in("worker")

\* views.send_background_whatsapp_all
send_background_whatsapp_all ==
    LET unsent == {pk \in DOMAIN records : ~records[pk].whatsapp_sent}
    IN  /\ unsent # {}
        /\ Start("worker", "background_whatsapp", Snapshot(records, unsent), "default",
                 NoRecipient)

\* variant: the row of a forward is addressed to the record itself
PendingRow_to_record(id, copy, op, message, to) ==
    [id |-> id, pledge_record |-> copy.pk,
     recipient_name |-> copy.inst.name,
     recipient_mobile |-> copy.inst.mobile_number,
     message_type |-> IF op \in ForwardOps THEN "forwarded"
                      ELSE IF message = "default" THEN "wedding_invitation" ELSE "custom",
     status |-> "pending", message_id |-> "", error_message |-> ""]

\* the SMSMessage row a dispatcher creates before it calls the provider
PendingRow(id, copy, op, message, to) ==
    [id |-> id, pledge_record |-> copy.pk,
     recipient_name |-> IF op \in SmsOps THEN copy.inst.name
                        ELSE IF to.name = <<>> THEN ForwardedGuest ELSE to.name,
     recipient_mobile |-> IF op \in SmsOps THEN copy.inst.mobile_number ELSE to.number,
     message_type |-> IF op \in ForwardOps THEN "forwarded"
                      ELSE IF message = "default" THEN "wedding_invitation" ELSE "custom",
     status |-> "pending", message_id |-> "", error_message |-> ""]

\* variant: an exception ends the worker as well
Raise_ends_worker(t) == Idle

\* an exception leaves the dispatcher: the worker's per-record except goes on
\* to the next copy, a view's except ends the request
Raise(t) ==
    IF task[t].op \in {"background_sms", "background_whatsapp"} /\ Len(task[t].queue) > 1
    THEN [task[t] EXCEPT !.queue = Tail(@), !.success = FALSE, !.pc = "call",
                         !.row = 0, !.call = 0]
    ELSE Idle

\* variant: the row is created as sent
create_pending_sent(t) ==
    /\ task[t].pc = "call"
    /\ task[t].op \in SmsOps \cup ForwardOps
    /\ LET copy == task[t].queue[1]
       IN  IF task[t].message = "bad_template" \/ copy.pk \notin DOMAIN records
           THEN /\ task' = [task EXCEPT ![t] = Raise(t)]
                /\ UNCHANGED <<messages, provider_log>>
           ELSE /\ messages' = Append(messages,
                        [PendingRow(RowsCreated + 1, copy, task[t].op, task[t].message,
                                    task[t].to) EXCEPT !.status = "sent"])
                /\ provider_log' = Append(provider_log,
                        [channel |-> IF task[t].op \in SmsOps THEN "sms" ELSE "forward",
                         pk |-> copy.pk, outcome |-> "outstanding"])
                /\ task' = [task EXCEPT ![t].pc = "pending", ![t].row = RowsCreated + 1,
                                        ![t].call = Calls + 1]
    /\ UNCHANGED <<records, upload_logs, result, phone_vars, batch, savers>>

\* send_pledge_sms and send_forwarded_sms up to the provider call: the
\* message is formatted and the row created, both outside the try
create_pending(t) ==
    /\ task[t].pc = "call"
    /\ task[t].op \in SmsOps \cup ForwardOps
    /\ LET copy == task[t].queue[1]
       IN  IF task[t].message = "bad_template" \/ copy.pk \notin DOMAIN records
           THEN /\ task' = [task EXCEPT ![t] = Raise(t)]
                /\ UNCHANGED <<messages, provider_log>>
           ELSE /\ messages' = Append(messages,
                        PendingRow(RowsCreated + 1, copy, task[t].op, task[t].message,
                                   task[t].to))
                /\ provider_log' = Append(provider_log,
                        [channel |-> IF task[t].op \in SmsOps THEN "sms" ELSE "forward",
                         pk |-> copy.pk, outcome |-> "outstanding"])
                /\ task' = [task EXCEPT ![t].pc = "pending", ![t].row = RowsCreated + 1,
                                        ![t].call = Calls + 1]
    /\ UNCHANGED <<records, upload_logs, result, phone_vars, batch, savers>>

\* the row with the id written by sms_record.save(): updated in place, or
\* inserted again when it is gone
SaveRow(rows, row) ==
    IF \E i \in DOMAIN rows : rows[i].id = row.id
    THEN [i \in DOMAIN rows |-> IF rows[i].id = row.id THEN row ELSE rows[i]]
    ELSE Append(rows, row)

\* variant: no except clause, an exception of the provider leaves the dispatcher
provider_responds_uncaught(t, outcome) ==
    /\ task[t].pc = "pending"
    /\ LET copy == task[t].queue[1]
           row == [PendingRow(task[t].row, copy, task[t].op, task[t].message, task[t].to)
                      EXCEPT !.status = "sent", !.message_id = "id"]
       IN  /\ provider_log' = [provider_log EXCEPT ![task[t].call].outcome = outcome]
           /\ IF copy.pk \in DOMAIN records /\ outcome = "returned"
              THEN /\ messages' = SaveRow(messages, row)
                   /\ task' = [task EXCEPT ![t].pc = "returned", ![t].success = TRUE]
              ELSE /\ UNCHANGED messages
                   /\ task' = [task EXCEPT ![t] = Raise(t)]
    /\ UNCHANGED <<records, upload_logs, result, phone_vars, batch, savers>>

\* the provider call returns or raises and the dispatcher writes the row:
\* sms_utils.py:58-92 and 153-191
provider_responds(t, outcome) ==
    /\ task[t].pc = "pending"
    /\ LET copy == task[t].queue[1]
           row == [PendingRow(task[t].row, copy, task[t].op, task[t].message, task[t].to)
                      EXCEPT !.status = IF outcome = "returned" THEN "sent" ELSE "failed",
                             !.message_id = IF outcome = "returned" THEN "id" ELSE "",
                             !.error_message = IF outcome = "returned" THEN "" ELSE "error"]
       IN  /\ provider_log' = [provider_log EXCEPT ![task[t].call].outcome = outcome]
           /\ IF copy.pk \in DOMAIN records
              THEN /\ messages' = SaveRow(messages, row)
                   /\ task' = [task EXCEPT ![t].pc = "returned",
                                           ![t].success = (outcome = "returned")]
              ELSE /\ UNCHANGED messages
                   /\ task' = [task EXCEPT ![t] = Raise(t)]
    /\ UNCHANGED <<records, upload_logs, result, phone_vars, batch, savers>>

\* send_invitation_whatsapp on the copy: number, image, provider call, flag
whatsapp_call(t, image, provider) ==
    /\ task[t].pc = "call"
    /\ task[t].op \in WhatsAppOps
    /\ LET copy == task[t].queue[1]
           failed == [task EXCEPT ![t].pc = "returned", ![t].success = FALSE]
       IN  IF format_phone_for_whatsapp(copy.inst.mobile_number) = <<>> \/ image = "fails"
           THEN /\ task' = failed
                /\ UNCHANGED <<records, provider_log>>
           ELSE \E drawn \in save(records, copy.pk,
                                  [copy.inst EXCEPT !.invitation_image_url
                                                        = image_url(copy.inst)]) :
                    IF ~drawn.ok
                    THEN /\ task' = failed
                         /\ UNCHANGED <<records, provider_log>>
                    ELSE /\ provider_log' = Append(provider_log,
                                 [channel |-> "whatsapp", pk |-> copy.pk,
                                  outcome |-> provider])
                         /\ IF provider # "ok"
                            THEN /\ records' = drawn.records
                                 /\ task' = [failed EXCEPT ![t].call = Calls + 1]
                            ELSE \E out \in save(drawn.records, copy.pk,
                                                 [drawn.records[copy.pk]
                                                     EXCEPT !.whatsapp_sent = TRUE]) :
                                     /\ records' = out.records
                                     /\ task' = [task EXCEPT ![t].pc = "returned",
                                                             ![t].success = out.ok,
                                                             ![t].call = Calls + 1]
    /\ UNCHANGED <<messages, upload_logs, result, phone_vars, batch, savers>>

\* the rows whose number is among the successful ones, marked sent by
\* .update(normal_message_sent=True)
update_sent(recs, numbers) ==
    [pk \in DOMAIN recs |->
        IF recs[pk].mobile_number \in numbers
        THEN [recs[pk] EXCEPT !.normal_message_sent = TRUE]
        ELSE recs[pk]]

\* variant: the caller marks the record whatever the dispatcher returned
caller_continues_marking(t) ==
    /\ task[t].pc = "returned"
    /\ LET copy == task[t].queue[1]
           last == Len(task[t].queue) = 1
           next == IF last THEN Idle
                   ELSE [task[t] EXCEPT !.queue = Tail(@), !.pc = "call", !.row = 0,
                                        !.call = 0, !.success = FALSE]
       IN  CASE task[t].op \in {"send_sms", "background_sms"} ->
                    /\ task' = [task EXCEPT ![t] = next]
                    /\ \E out \in save(records, copy.pk,
                                   [copy.inst EXCEPT !.normal_message_sent = TRUE]) :
                               records' = out.records
              [] task[t].op = "send_bulk_sms" ->
                    LET sent == task[t].sent \cup {copy.inst.mobile_number}
                    IN  /\ task' = [task EXCEPT ![t] =
                                        IF last THEN Idle ELSE [next EXCEPT !.sent = sent]]
                        /\ records' = IF last THEN update_sent(records, sent) ELSE records
              [] OTHER ->
                    /\ task' = [task EXCEPT ![t] = next]
                    /\ UNCHANGED records
    /\ UNCHANGED <<messages, upload_logs, result, phone_vars, batch, savers, provider_log>>

\* the caller at its next copy, or done after the last one
NextCopy(t) ==
    IF Len(task[t].queue) = 1 THEN Idle
    ELSE [task[t] EXCEPT !.queue = Tail(@), !.pc = "call", !.row = 0,
                         !.call = 0, !.success = FALSE]

\* the caller in time.sleep: views.py:432 (after a success only) and 577
Sleeps(t) ==
    \/ task[t].op = "background_sms" /\ task[t].success
    \/ task[t].op = "background_whatsapp"

\* what the caller does with the dispatcher's result, and its move to the
\* next copy: views.py:264-268, 289-304, 428-434, 486-490, 512-518, 572-580
caller_continues(t) ==
    /\ task[t].pc = "returned"
    /\ LET copy == task[t].queue[1]
           last == Len(task[t].queue) = 1
           next == IF Sleeps(t) THEN [task[t] EXCEPT !.pc = "sleep"] ELSE NextCopy(t)
       IN  CASE task[t].op \in {"send_sms", "background_sms"} ->
                    /\ task' = [task EXCEPT ![t] = next]
                    /\ IF task[t].success
                       THEN \E out \in save(records, copy.pk,
                                            [copy.inst EXCEPT !.normal_message_sent = TRUE]) :
                                records' = out.records
                       ELSE UNCHANGED records
              [] task[t].op = "send_bulk_sms" ->
                    LET sent == IF task[t].success
                                THEN task[t].sent \cup {copy.inst.mobile_number}
                                ELSE task[t].sent
                    IN  /\ task' = [task EXCEPT ![t] =
                                        IF last THEN Idle ELSE [next EXCEPT !.sent = sent]]
                        /\ records' = IF last THEN update_sent(records, sent) ELSE records
              [] OTHER ->
                    /\ task' = [task EXCEPT ![t] = next]
                    /\ UNCHANGED records
    /\ UNCHANGED <<messages, upload_logs, result, phone_vars, batch, savers, provider_log>>

\* time.sleep returns and the loop goes on
sleep_ends(t) ==
    /\ task[t].pc = "sleep"
    /\ task' = [task EXCEPT ![t] = NextCopy(t)]
    /\ UNCHANGED <<store_vars, phone_vars, batch, savers, provider_log>>

\* a record is created before any send; keys are not handed out again once
\* a dispatcher has been called
seed_record(f) ==
    /\ provider_log = <<>>
    /\ \A t \in Slots : task[t].pc = "idle"
    /\ create_record(f)

\* delete_record while no provider call is outstanding
delete_between_calls(pk) ==
    /\ \A t \in Slots : task[t].pc # "pending"
    /\ delete_record(pk)

(***************************************************************************)
(* Inputs of the handlers                                                  *)
(***************************************************************************)
Local == <<"0", "7", "1", "2", "3", "4", "5", "6", "7", "8">>
WithCountry == <<"2", "5", "5", "7", "1", "2", "3", "4", "5", "6", "7", "8">>
International == <<"+", "2", "5", "5", "7", "1", "2", "3", "4", "5", "6", "7", "8">>
OtherLocal == <<"0", "7", "1", "2", "3", "4", "5", "6", "7", "9">>
BadInternational == <<"+", "0", "7", "1", "2">>
Padded == <<" ">> \o Local

\* pledge 100000.00 with paid on either side of the two tier thresholds
Below == [pledge |-> Dec(100000, 0), paid |-> Dec(49999, 99)]
Single == [pledge |-> Dec(100000, 0), paid |-> Dec(50000, 0)]
AlmostDouble == [pledge |-> Dec(100000, 0), paid |-> Dec(99999, 99)]
Double == [pledge |-> Dec(100000, 0), paid |-> Dec(100000, 0)]
\* pledge - paid = 100000000.00 has 11 digits
TooLarge == [pledge |-> Dec(99999999, 99), paid |-> Dec(-1, 99)]
NotANumber == [pledge |-> Dec(100000, 0), paid |-> NaN]

Fields(mobiles, names, amounts) ==
    {[mobile_number |-> m, name |-> n, pledge |-> a.pledge, paid |-> a.paid] :
        m \in mobiles, n \in names, a \in amounts}

\* the columns of a file: name, number, pledge, and the paid column under
\* the given header, then the extra columns
Columns(paid_header, extra) ==
    << [header |-> <<" ", "NAME">>, holds |-> "name"],
       [header |-> <<"Phone", " ", "Number">>, holds |-> "mobile"],
       [header |-> <<"Pledge", "_", "Amount">>, holds |-> "pledge"],
       [header |-> paid_header, holds |-> "paid"] >> \o extra

PlainColumns == Columns(<<"Amount", " ", "Paid", " ">>, <<>>)
BalanceColumns ==
    Columns(<<"Paid">>, << [header |-> <<"Balance">>, holds |-> "remaining"] >>)
\* "mobile" comes before "phone_number" in the alias list
TwoNumberColumns ==
    << [header |-> <<"Mobile">>, holds |-> "phone"] >> \o Columns(<<"Paid">>, <<>>)
\* "tel" is no alias of mobile_number
NoNumberColumns ==
    << [header |-> <<"Name">>, holds |-> "name"],
       [header |-> <<"Tel">>, holds |-> "mobile"],
       [header |-> <<"Pledge">>, holds |-> "pledge"],
       [header |-> <<"Paid">>, holds |-> "paid"] >>
\* "payment" is no alias of paid
NoPaidColumns ==
    Columns(<<"Payment">>, << [header |-> <<"Remaining">>, holds |-> "remaining"] >>)

File(filename, columns, rows) ==
    [filename |-> filename, columns |-> columns, rows |-> rows]

\* a first row, remaining disagreeing with pledge - paid
RowBelow ==
    [mobile |-> <<"2", "5", "5", "7", "1", "2", "3", "4", "5", "6", "7", "8">>, phone |-> <<"0", "7", "1", "2", "3", "4", "5", "6", "7", "9">>, name |-> <<"A">>,
     pledge |-> <<"1", "0", "0", ",", "0", "0", "0", ".", "0", "0">>, paid |-> <<"4", "9", "9", "9", "9", ".", "9", "9">>,
     remaining |-> <<"1">>]
RowDouble ==
    [mobile |-> <<" ", "0", "7", "1", "2", "3", "4", "5", "6", "7", "8">>, phone |-> <<"0", "7", "1", "2", "3", "4", "5", "6", "7", "9">>, name |-> <<"B">>,
     pledge |-> <<"1", "0", "0", "0", "0", "0">>, paid |-> <<"1", "0", "0", ",", "0", "0", "0">>,
     remaining |-> <<"0", ".", "0", "0">>]
RowOther ==
    [mobile |-> <<"0", "7", "1", "2", "3", "4", "5", "6", "7", "9">>, phone |-> <<"0", "7", "1", "2", "3", "4", "5", "6", "7", "8">>, name |-> <<"A">>,
     pledge |-> <<"1", "0", "0", "0", "0", "0">>, paid |-> <<"5", "0", "0", "0", "0", ".", "0">>,
     remaining |-> <<"5", "0", "0", "0", "0">>]
\* a null marker for the number
RowNoNumber ==
    [mobile |-> <<"N", "a", "N">>, phone |-> <<"N", "o", "n", "e">>, name |-> <<"A">>,
     pledge |-> <<"1", "0", "0", "0", "0", "0">>, paid |-> <<"0">>,
     remaining |-> <<"1", "0", "0", "0", "0", "0">>]
\* an amount that is no numeral
RowBadPaid ==
    [mobile |-> <<"0", "7", "1", "2", "3", "4", "5", "6", "7", "8">>, phone |-> <<"0", "7", "1", "2", "3", "4", "5", "6", "7", "9">>, name |-> <<"A">>,
     pledge |-> <<"1", "0", "0", "0", "0", "0">>, paid |-> <<"1", ".", "2", ".", "3">>,
     remaining |-> <<"0">>]
\* a blank number and an amount that is no numeral
RowNoNumberBadPaid ==
    [mobile |-> <<" ">>, phone |-> <<"0", "7", "1", "2", "3", "4", "5", "6", "7", "9">>, name |-> <<"A">>,
     pledge |-> <<"1", "0", "0", "0", "0", "0">>, paid |-> <<"-">>,
     remaining |-> <<"0">>]
\* a number that fails validation
RowBadNumber ==
    [mobile |-> <<"+", "0", "7", "1", "2">>, phone |-> <<"+", "0", "7", "1", "2">>, name |-> <<"A">>,
     pledge |-> <<"1", "0", "0", "0", "0", "0">>, paid |-> <<"0">>,
     remaining |-> <<"1", "0", "0", "0", "0", "0">>]
\* a remaining cell that is no numeral
RowBadRemaining ==
    [mobile |-> <<"0", "7", "1", "2", "3", "4", "5", "6", "7", "8">>, phone |-> <<"0", "7", "1", "2", "3", "4", "5", "6", "7", "9">>, name |-> <<"A">>,
     pledge |-> <<"1", "0", "0", "0", "0", "0">>, paid |-> <<"1", "0", "0", "0", "0", "0">>,
     remaining |-> <<"n", "i", "l">>]
\* paid is the numeral 'nan'
RowNaNPaid ==
    [mobile |-> <<"0", "7", "1", "2", "3", "4", "5", "6", "7", "8">>, phone |-> <<"0", "7", "1", "2", "3", "4", "5", "6", "7", "9">>, name |-> <<"A">>,
     pledge |-> <<"1", "0", "0", "0", "0", "0">>, paid |-> <<"n", "a", "n">>,
     remaining |-> <<"0">>]

RowInputs ==
    {RowBelow, RowDouble, RowOther, RowNoNumber, RowBadPaid, RowNoNumberBadPaid,
     RowBadNumber}

RowsUpTo(n, rows) == UNION {[1..k -> rows] : k \in 0..n}

(***************************************************************************)
(* The record store under every handler                                    *)
(***************************************************************************)
RecordInputs ==
    Fields({Local, WithCountry}, {<<"A">>}, {Below, Double})
    \cup Fields({Local}, {<<"A">>}, {TooLarge, NotANumber})

Assignments ==
    {<<"card_capacity", 5>>, <<"paid", Dec(50000, 0)>>, <<"whatsapp_sent", FALSE>>}

UploadInputs ==
    {File("a.csv", BalanceColumns, <<RowBelow, RowBadRemaining>>),
     File("b.xlsx", NoPaidColumns, <<RowDouble>>)}

Init ==
    /\ records = <<>>
    /\ messages = <<>>
    /\ upload_logs = <<>>
    /\ result = NoResult
    /\ phone_number = <<>>
    /\ phone_pc = "idle"
    /\ formatted = Unset
    /\ reformatted = Unset
    /\ verdict = "none"
    /\ batch = NoBatch
    /\ savers = [s \in Savers |-> NoSave]
    /\ task = [t \in Slots |-> Idle]
    /\ provider_log = <<>>

Next ==
    \/ \E f \in RecordInputs : create_record(f)
    \/ \E pk \in PKs, a \in Assignments : save_record(pk, a[1], a[2])
    \/ \E pk \in PKs, post \in RecordInputs : edit_record(pk, post)
    \/ \E pk \in PKs : delete_record(pk)
    \/ \E file \in UploadInputs : process_upload_data(file)
    \/ \E pk \in PKs, message \in {"default", "bad_template"},
          provider \in {"returns", "raises"} : send_sms(pk, message, provider)
    \/ \E pk \in PKs, image \in {"written", "fails"},
          provider \in {"ok", "rejected"} : send_whatsapp(pk, image, provider)

Spec == Init /\ [][Next]_vars

(***************************************************************************)
(* The record store under the handlers that set card_capacity              *)
(***************************************************************************)
CapacityInputs ==
    Fields({Local}, {<<"A">>}, {Below, Single, AlmostDouble, Double})

CapacityAssignments ==
    {<<"card_capacity", v>> : v \in {-1, 2, 3}}
    \cup {<<"paid", Dec(50000, 0)>>, <<"name", <<"B">>>>}

CapacityUploads ==
    {File("a.csv", PlainColumns, <<r>>) : r \in {RowBelow, RowDouble, RowNaNPaid}}

NextCapacity ==
    \/ \E f \in CapacityInputs : create_record(f)
    \/ \E pk \in PKs, a \in CapacityAssignments : save_record(pk, a[1], a[2])
    \/ \E pk \in PKs, post \in CapacityInputs : edit_record(pk, post)
    \/ \E pk \in PKs : delete_record(pk)
    \/ \E file \in CapacityUploads : process_upload_data(file)

SpecCapacity == Init /\ [][NextCapacity]_vars

(***************************************************************************)
(* The record store under the handlers that set numbers and codes          *)
(***************************************************************************)
StoreInputs ==
    Fields({Local, WithCountry, International, OtherLocal, BadInternational, <<>>,
            Padded},
           {<<"A">>}, {Double})

StoreAssignments ==
    {<<"mobile_number", m>> : m \in {WithCountry, OtherLocal, International}}

StoreUploads ==
    {File("a.csv", PlainColumns, <<RowDouble>>),
     File("a.csv", TwoNumberColumns, <<RowOther>>)}

NextStore ==
    \/ \E f \in StoreInputs : create_record(f)
    \/ \E pk \in PKs, a \in StoreAssignments : save_record(pk, a[1], a[2])
    \/ \E pk \in PKs, post \in StoreInputs : edit_record(pk, post)
    \/ \E pk \in PKs : delete_record(pk)
    \/ \E file \in StoreUploads : process_upload_data(file)
    \/ update_phone_numbers

SpecStore == Init /\ [][NextStore]_vars

(***************************************************************************)
(* Uploads into a store of at most one earlier record                      *)
(***************************************************************************)
EarlierInputs == Fields({OtherLocal}, {<<"Z">>}, {Below})

UploadFiles ==
    {File("a.csv", columns, rows) :
        columns \in {PlainColumns, BalanceColumns},
        rows \in RowsUpTo(MaxRows, RowInputs)}
    \cup {File("b.xlsx", NoPaidColumns, rows) : rows \in {<<>>, <<RowBelow, RowOther>>}}
    \cup {File("c.xls", NoNumberColumns, <<RowBelow>>)}

NextUpload ==
    \/ \E f \in EarlierInputs : create_record(f)
    \/ \E file \in UploadFiles : process_upload_data(file)

SpecUpload == Init /\ [][NextUpload]_vars

(***************************************************************************)
(* Uploads step by step, interrupted anywhere                              *)
(***************************************************************************)
BatchRows == RowsUpTo(MaxRows, {RowBelow, RowDouble, RowBadPaid, RowNoNumber})

BatchFiles ==
    {File("a.csv", PlainColumns, rows) : rows \in BatchRows}
    \cup {File("b.xlsx", BalanceColumns, rows) : rows \in BatchRows}

NextBatch ==
    \/ \E file \in BatchFiles : begin_upload(file)
    \/ upload_row
    \/ upload_write_log
    \/ upload_commit
    \/ upload_interrupt

SpecBatch == Init /\ [][NextBatch]_vars

(***************************************************************************)
(* Two requests saving new records at once                                 *)
(***************************************************************************)
SaverInputs == Fields({Local, OtherLocal}, {<<"A">>}, {Below})

SaverStep(s) == save_draw(s) \/ save_clean(s) \/ save_insert(s)

NextSavers ==
    \/ \E s \in Savers, f \in SaverInputs : save_begin(s, f)
    \/ \E s \in Savers : save_draw(s)
    \/ \E s \in Savers : save_clean(s)
    \/ \E s \in Savers : save_insert(s)

SpecSavers == Init /\ [][NextSavers]_vars

(***************************************************************************)
(* One request saving a new record over a table filled by earlier          *)
(* requests; the request keeps running once it has begun                   *)
(***************************************************************************)
PoolInputs == Fields({Local, OtherLocal, WithCountry}, {<<"A">>}, {Below})

NextPool ==
    \/ \E f \in PoolInputs : create_record(f)
    \/ \E f \in PoolInputs : save_begin("first", f)
    \/ save_draw("first")
    \/ save_clean("first")
    \/ save_insert("first")

SpecPool == Init /\ [][NextPool]_vars /\ WF_vars(SaverStep("first"))

(***************************************************************************)
(* Sends by a request and by the background thread over the records made   *)
(* beforehand                                                              *)
(***************************************************************************)
SendInputs == Fields({Local, OtherLocal}, {<<"A">>}, {Below})

Templates == {"default", "custom", "bad_template"}

ForwardPosts ==
    {[number |-> WithCountry, name |-> <<"G">>, message |-> "custom"],
     [number |-> WithCountry, name |-> <<>>, message |-> "default"],
     [number |-> WithCountry, name |-> <<>>, message |-> "bad_template"],
     [number |-> BadInternational, name |-> <<>>, message |-> "default"]}

NextSend ==
    \/ \E f \in SendInputs : seed_record(f)
    \/ \E pk \in PKs : delete_between_calls(pk)
    \/ \E pk \in PKs, message \in Templates : send_sms_request(pk, message)
    \/ \E pks \in SUBSET PKs, message \in {"default", "bad_template"} :
           send_bulk_sms_request(pks, message)
    \/ \E pk \in PKs, post \in ForwardPosts : forward_sms_request(pk, post)
    \/ \E pk \in PKs, number \in {OtherLocal, <<" ">>} : forward_sms_modal_request(pk, number)
    \/ \E pk \in PKs : send_whatsapp_request(pk)
    \/ \E pks \in SUBSET PKs : send_bulk_whatsapp_request(pks)
    \/ send_background_sms_all
    \/ send_background_whatsapp_all
    \/ \E t \in Slots : create_pending(t)
    \/ \E t \in Slots, outcome \in {"returned", "raised"} : provider_responds(t, outcome)
    \/ \E t \in Slots, image \in {"written", "fails"},
          provider \in {"ok", "rejected", "raises", "no_credentials"} :
              whatsapp_call(t, image, provider)
    \/ \E t \in Slots : caller_continues(t)
    \/ \E t \in Slots : sleep_ends(t)

SpecSend == Init /\ [][NextSend]_vars

(***************************************************************************)
(* Sends while form edits and uploads change the records                   *)
(***************************************************************************)
StaleInputs == Fields({Local}, {<<"A">>}, {Below})

StaleEdits == Fields({Local}, {<<"B">>}, {Double})

StaleUploads == {File("a.csv", PlainColumns, <<RowDouble>>)}

NextStale ==
    \/ \E f \in StaleInputs : seed_record(f)
    \/ \E pk \in PKs, post \in StaleEdits : edit_record(pk, post)
    \/ \E file \in StaleUploads : process_upload_data(file)
    \/ \E pk \in PKs : send_sms_request(pk, "default")
    \/ \E pk \in PKs : send_whatsapp_request(pk)
    \/ send_background_sms_all
    \/ send_background_whatsapp_all
    \/ \E t \in Slots : create_pending(t)
    \/ \E t \in Slots, outcome \in {"returned", "raised"} : provider_responds(t, outcome)
    \/ \E t \in Slots, image \in {"written", "fails"}, provider \in {"ok", "rejected"} :
           whatsapp_call(t, image, provider)
    \/ \E t \in Slots : caller_continues(t)
    \/ \E t \in Slots : sleep_ends(t)

SpecStale == Init /\ [][NextStale]_vars

(***************************************************************************)
(* 'Send SMS to all unsent' triggered while a worker is running            *)
(***************************************************************************)
NextTwice ==
    \/ \E f \in SendInputs : seed_record(f)
    \/ \E t \in Workers : send_background_sms_all_in(t)
    \/ \E t \in Workers : create_pending(t)
    \/ \E t \in Workers, outcome \in {"returned", "raised"} : provider_responds(t, outcome)
    \/ \E t \in Workers : caller_continues(t)
    \/ \E t \in Workers : sleep_ends(t)

SpecTwice == Init /\ [][NextTwice]_vars

(***************************************************************************)
(* A background worker thread, scheduled until it returns: the thread is   *)
(* started by thread.start() and nothing cancels it (views.py:455-460,     *)
(* 542-547); the provider call returns or raises                           *)
(***************************************************************************)
WorkerStep(t) ==
    \/ create_pending(t)
    \/ \E outcome \in {"returned", "raised"} : provider_responds(t, outcome)
    \/ \E image \in {"written", "fails"}, provider \in {"ok", "rejected"} :
           whatsapp_call(t, image, provider)
    \/ caller_continues(t)
    \/ sleep_ends(t)

NextWorker ==
    \/ \E f \in SendInputs : seed_record(f)
    \/ \E pk \in PKs : delete_between_calls(pk)
    \/ send_background_sms_all
    \/ send_background_whatsapp_all
    \/ WorkerStep("worker")

SpecWorker == Init /\ [][NextWorker]_vars /\ WF_vars(WorkerStep("worker"))

(***************************************************************************)
(* Properties of the record store                                          *)
(***************************************************************************)
\* paid + remaining = pledge, on finite amounts
Balanced(r) ==
    /\ r.pledge.kind = "fin" /\ r.paid.kind = "fin" /\ r.remaining.kind = "fin"
    /\ (r.paid.c + r.remaining.c) % 100 = r.pledge.c
    /\ r.paid.w + r.remaining.w + ((r.paid.c + r.remaining.c) \div 100) = r.pledge.w

AllBalanced(recs) == \A pk \in DOMAIN recs : Balanced(recs[pk])

\* the table a row of the last upload found
Before(i) == IF i = 1 THEN records ELSE result'.trace[i - 1].records

\* C1: every persisted record has remaining = pledge - paid, also in the
\* table left by each row of an upload, whatever the file's remaining column
\* says.
C1_RemainingIsPledgeMinusPaid ==
    /\ AllBalanced(records)
    /\ (result.op = "upload" /\ result.ok) =>
           \A i \in DOMAIN result.trace : AllBalanced(result.trace[i].records)

\* an upload has updated a record from a row whose remaining cell is not
\* pledge - paid
C1_Witness ==
    /\ result.op = "upload" /\ result.ok
    /\ "remaining" \in DOMAIN actual_columns(result.file)
    /\ \E i \in DOMAIN result.trace :
           /\ result.trace[i].outcome = "updated"
           /\ parse_amount(result.file.rows[i].remaining).value
                  # dec_sub(parse_amount(result.file.rows[i].pledge).value,
                             parse_amount(result.file.rows[i].paid).value)

Alphabet ==
    {"A", "B", "C", "D", "E", "F", "G", "H", "J", "K", "L",
     "M", "N", "P", "Q", "R", "T", "U", "V", "W", "X", "Y"}

\* C2: no two persisted records share a card_code, and every code is
\* exactly 3 characters of ABCDEFGHJKLMNPQRTUVWXY.
C2_CardCodesUniqueAndShaped ==
    /\ \A p, q \in DOMAIN records :
           p # q => records[p].card_code # records[q].card_code
    /\ \A p \in DOMAIN records :
           /\ Len(records[p].card_code) = 3
           /\ \A i \in 1..3 : records[p].card_code[i] \in Alphabet

\* two records are persisted, the second after the first one's code was taken
C2_Witness ==
    /\ Cardinality(DOMAIN records) = 2
    /\ result.ok
    /\ result.op \in {"create", "upload"}

\* C3: every persisted record has a card_code, and no step changes the
\* non-empty card_code of a record it keeps.
C3_CardCodeFrozen ==
    [][/\ \A pk \in DOMAIN records' : records'[pk].card_code # <<>>
       /\ \A pk \in DOMAIN records \cap DOMAIN records' :
              records[pk].card_code # <<>> =>
                  records'[pk].card_code = records[pk].card_code]_vars

\* a record that an upload wrote and an SMS send saved again has gone
\* through a WhatsApp send with image generation
C3_Witness ==
    /\ result.op = "send_whatsapp" /\ result.ok
    /\ records[result.pk].whatsapp_sent
    /\ records[result.pk].invitation_image_url # <<>>
    /\ records[result.pk].normal_message_sent
    /\ upload_logs # <<>>
    /\ upload_logs[1].new_records + upload_logs[1].updated_records > 0

\* a row other than pk holds the number
Held(recs, pk, mobile) ==
    \E o \in DOMAIN recs \ {pk} : recs[o].mobile_number = mobile

Rejected == records' = records /\ ~result'.ok

\* C4: no two persisted records share a mobile_number, and a create, save or
\* form edit whose normalized number another record holds is rejected with
\* the table unchanged; the table left by each row of an upload has no
\* shared number either.
C4_MobileNumbersUnique ==
    [][/\ \A p, q \in DOMAIN records' :
              p # q => records'[p].mobile_number # records'[q].mobile_number
       /\ \A f \in StoreInputs :
              (/\ result'.op = "create"
               /\ Held(records, NoPk, format_phone_number(f.mobile_number))
               /\ create_record(f)) => Rejected
       /\ \A pk \in PKs, a \in StoreAssignments :
              (/\ result'.op = "save"
               /\ Held(records, pk, format_phone_number(a[2]))
               /\ save_record(pk, a[1], a[2])) => Rejected
       /\ \A pk \in PKs, post \in StoreInputs :
              (/\ result'.op = "edit"
               /\ Held(records, pk, format_phone_number(strip(post.mobile_number)))
               /\ edit_record(pk, post)) => Rejected
       /\ (result'.op = "upload" /\ result'.ok) =>
              \A i \in DOMAIN result'.trace :
                  \A p, q \in DOMAIN result'.trace[i].records :
                      p # q => result'.trace[i].records[p].mobile_number
                                   # result'.trace[i].records[q].mobile_number]_vars

\* with two records persisted, a save that set one record's number has been
\* refused (every number of StoreAssignments is valid, so what the save
\* asked for is the other record's number)
C4_Witness ==
    /\ Cardinality(DOMAIN records) = 2
    /\ result.op = "save"
    /\ ~result.ok
    /\ result.error = "ValidationError"

\* the capacity a save leaves, from the capacity before it and paid
Expected(before, paid) ==
    IF before > 2 THEN before
    ELSE IF paid.w >= 100000 THEN 2
    ELSE IF paid.w >= 50000 THEN 1
    ELSE 0

\* C5: every persisted record has card_capacity > 2 or the tier of paid, and
\* a successful save leaves the capacity it was given when that is above 2
\* and the tier of paid otherwise (2 from 100000, 1 from 50000, else 0).
C5_CapacityOverrideOrTier ==
    [][/\ \A pk \in DOMAIN records' :
              \/ records'[pk].card_capacity > 2
              \/ records'[pk].card_capacity = Expected(0, records'[pk].paid)
       /\ \A f \in CapacityInputs :
              (result'.op = "create" /\ result'.ok /\ create_record(f)) =>
                  records'[result'.pk].card_capacity
                      = Expected(0, records'[result'.pk].paid)
       /\ \A pk \in PKs, a \in CapacityAssignments :
              (result'.op = "save" /\ result'.ok /\ save_record(pk, a[1], a[2])) =>
                  records'[pk].card_capacity
                      = Expected(IF a[1] = "card_capacity" THEN a[2]
                                 ELSE records[pk].card_capacity,
                                 records'[pk].paid)
       /\ \A pk \in PKs, post \in CapacityInputs :
              (result'.op = "edit" /\ result'.ok /\ edit_record(pk, post)) =>
                  records'[pk].card_capacity
                      = Expected(records[pk].card_capacity, records'[pk].paid)
       /\ (result'.op = "upload" /\ result'.ok /\ upload_logs' # upload_logs) =>
              \A i \in DOMAIN result'.trace :
                  result'.trace[i].outcome \in {"new", "updated"} =>
                      \A pk \in DOMAIN result'.trace[i].records :
                          result'.trace[i].records[pk].card_capacity
                              = Expected(IF pk \in DOMAIN Before(i)
                                         THEN Before(i)[pk].card_capacity ELSE 0,
                                         result'.trace[i].records[pk].paid)]_vars

\* a record whose capacity was set to 3 keeps it through a form edit that
\* puts paid at 100000.00
C5_Witness ==
    /\ result.op = "edit" /\ result.ok
    /\ records[result.pk].card_capacity = 3
    /\ records[result.pk].paid = Dec(100000, 0)

(***************************************************************************)
(* Properties of uploads (SpecUpload)                                      *)
(***************************************************************************)
Required == {"name", "mobile_number", "pledge", "paid"}

\* no column of the file is an alias of the field
Unresolved(file, std) ==
    \A i \in DOMAIN column_mapping[std] : column_mapping[std][i] \notin df_columns(file)

\* C9: an upload of a file in which some required field has no column fails
\* with the missing-columns error, creates no UploadLog row and leaves every
\* record as it was.
C9_MissingColumnsRejected ==
    [][(/\ result'.op = "upload"
        /\ \E std \in Required : Unresolved(result'.file, std)
        /\ process_upload_data(result'.file)) =>
           /\ ~result'.ok
           /\ result'.error = "ValueError"
           /\ upload_logs' = upload_logs
           /\ records' = records]_vars

\* a file with rows and no paid column was refused over a store holding a record
C9_Witness ==
    /\ result.op = "upload"
    /\ ~result.ok
    /\ result.file.rows # <<>>
    /\ Unresolved(result.file, "paid")
    /\ records # <<>>
    /\ upload_logs = <<>>

Count(trace, outcome) ==
    Cardinality({i \in DOMAIN trace : trace[i].outcome = outcome})

\* counters and error list before row i of the last upload
CountersBefore(i) ==
    IF i = 1 THEN [new_records |-> 0, updated_records |-> 0, errors |-> <<>>]
    ELSE [new_records |-> result'.trace[i - 1].new_records,
          updated_records |-> result'.trace[i - 1].updated_records,
          errors |-> result'.trace[i - 1].errors]

\* the row's amounts do not parse, or its number fails validation
Raises(row) ==
    \/ ~parse_amount(row.pledge).ok
    \/ ~parse_amount(row.paid).ok
    \/ /\ lower(strip(row.mobile)) \notin NullMarkers
       /\ strip(row.mobile) # <<>>
       /\ validate_phone_number(format_phone_number(strip(row.mobile))) # "ok"

\* the table holds the row's values under the row's normalized number
Persisted(recs, row) ==
    \E pk \in DOMAIN recs :
        /\ recs[pk].mobile_number = format_phone_number(strip(row.mobile))
        /\ recs[pk].name = strip(row.name)
        /\ recs[pk].pledge = parse_amount(row.pledge).value
        /\ recs[pk].paid = parse_amount(row.paid).value

\* C10: in an upload whose required columns resolve every row is processed;
\* a row that raises adds one error entry numbered by the row, changes no
\* record and no counter; every row that neither raises nor is skipped is
\* persisted and adds one to new or to updated; and
\* total = rows = new + updated + errors + skipped.
C10_RowErrorsIsolated ==
    [][(result'.op = "upload" /\ result'.ok /\ upload_logs' # upload_logs) =>
           LET file == result'.file
               trace == result'.trace
               report_ == result'.report
           IN  /\ Len(trace) = Len(file.rows)
               /\ records' = Before(Len(trace) + 1)
               /\ report_.total_records = Len(file.rows)
               /\ report_.total_records
                      = report_.new_records + report_.updated_records
                            + Len(report_.errors) + Count(trace, "skipped")
               /\ report_.new_records = Count(trace, "new")
               /\ report_.updated_records = Count(trace, "updated")
               /\ \A i \in DOMAIN trace :
                      /\ Raises(file.rows[i]) => trace[i].outcome = "error"
                      /\ trace[i].outcome = "error" =>
                             /\ trace[i].records = Before(i)
                             /\ trace[i].new_records = CountersBefore(i).new_records
                             /\ trace[i].updated_records = CountersBefore(i).updated_records
                             /\ Len(trace[i].errors) = Len(CountersBefore(i).errors) + 1
                             /\ SubSeq(trace[i].errors, 1, Len(CountersBefore(i).errors))
                                    = CountersBefore(i).errors
                             /\ trace[i].errors[Len(trace[i].errors)].row = i
                      /\ trace[i].outcome \in {"new", "updated"} =>
                             /\ Persisted(trace[i].records, file.rows[i])
                             /\ trace[i].new_records + trace[i].updated_records
                                    = CountersBefore(i).new_records
                                          + CountersBefore(i).updated_records + 1
                             /\ trace[i].errors = CountersBefore(i).errors
                      /\ trace[i].outcome = "skipped" =>
                             /\ trace[i].records = Before(i)
                             /\ trace[i].new_records = CountersBefore(i).new_records
                             /\ trace[i].updated_records = CountersBefore(i).updated_records
                             /\ trace[i].errors = CountersBefore(i).errors]_vars

\* a three-row upload: a row created a record, the next row raised, the
\* last row updated the record
C10_Witness ==
    /\ result.op = "upload" /\ result.ok
    /\ Len(result.trace) = 3
    /\ result.trace[1].outcome = "new"
    /\ result.trace[2].outcome = "error"
    /\ result.trace[3].outcome = "updated"
    /\ Len(result.report.errors) = 1

\* the number the loop body looks the row up by, views.py:122-137
Number(row) ==
    LET mobile_number == strip(row.mobile)
    IN  IF mobile_number # <<>> /\ lower(mobile_number) \notin NullMarkers
        THEN format_phone_number(mobile_number)
        ELSE mobile_number

\* rows i < j of the file carry the same number, which is no null marker,
\* no earlier row carries it and no record holds it before the upload
SameNumberTwice(file, i, j) ==
    /\ i < j
    /\ Number(file.rows[i]) # <<>>
    /\ lower(Number(file.rows[i])) \notin NullMarkers
    /\ Number(file.rows[i]) = Number(file.rows[j])
    /\ \A k \in 1..(i - 1) : Number(file.rows[k]) # Number(file.rows[i])
    /\ \A pk \in DOMAIN records : records[pk].mobile_number # Number(file.rows[i])

\* row i created the record, row j updated that record, and after row j one
\* record holds the number, with the name, pledge and paid of row j
CreatedThenUpdated(file, trace, i, j) ==
    /\ trace[i].outcome = "new"
    /\ trace[j].outcome = "updated"
    /\ \E pk \in DOMAIN trace[j].records :
           /\ pk \in DOMAIN trace[i].records
           /\ pk \notin DOMAIN Before(i)
           /\ \A k \in DOMAIN trace[j].records :
                  trace[j].records[k].mobile_number = Number(file.rows[i]) <=> k = pk
           /\ trace[j].records[pk].name = strip(file.rows[j].name)
           /\ trace[j].records[pk].pledge = parse_amount(file.rows[j].pledge).value
           /\ trace[j].records[pk].paid = parse_amount(file.rows[j].paid).value

NullNumber(row) ==
    strip(row.mobile) = <<>> \/ lower(strip(row.mobile)) \in NullMarkers

\* the amounts the loop body parses before it looks at the number,
\* views.py:125-132, raise nothing
AmountsParse(file, row) ==
    /\ parse_amount(row.pledge).ok
    /\ parse_amount(row.paid).ok
    /\ "remaining" \in DOMAIN actual_columns(file) => parse_amount(row.remaining).ok

\* row i of the last upload left the table, the counters and the error list
\* as they were
Silent(trace, i) ==
    /\ trace[i].outcome = "skipped"
    /\ trace[i].records = Before(i)
    /\ trace[i].new_records = CountersBefore(i).new_records
    /\ trace[i].updated_records = CountersBefore(i).updated_records
    /\ trace[i].errors = CountersBefore(i).errors

\* C13 as stated: every row whose number is blank or a null marker is
\* skipped silently, whatever its other cells contain.
C13_AsStated ==
    [][(result'.op = "upload" /\ result'.ok /\ upload_logs' # upload_logs) =>
           \A i \in DOMAIN result'.trace :
               NullNumber(result'.file.rows[i]) => Silent(result'.trace, i)]_vars

\* C13 (amended): every row whose number is blank or a null marker and
\* whose amounts are obtained without raising (pledge and paid parse, and so
\* does the remaining cell when the file has that column) is skipped
\* silently: no error entry, no count incremented, no record changed.
C13_NullNumberSkipped ==
    [][(result'.op = "upload" /\ result'.ok /\ upload_logs' # upload_logs) =>
           \A i \in DOMAIN result'.trace :
               (/\ NullNumber(result'.file.rows[i])
                /\ AmountsParse(result'.file, result'.file.rows[i])) =>
                   Silent(result'.trace, i)]_vars

\* an upload skipped a null-marker row between a row that created a record
\* and a row that raised
C13_Witness ==
    /\ result.op = "upload" /\ result.ok
    /\ Len(result.trace) = 3
    /\ result.trace[1].outcome = "new"
    /\ NullNumber(result.file.rows[2])
    /\ result.trace[2].outcome = "skipped"
    /\ result.trace[3].outcome = "error"
    /\ result.report.new_records = 1
    /\ Len(result.report.errors) = 1

(***************************************************************************)
(* Properties of the upload transaction (SpecBatch)                        *)
(***************************************************************************)
\* C12: the tables other connections read change only when an upload
\* commits, and then all at once: the records become what processing every
\* row of the file from the visible table leaves, and the UploadLog row of
\* that same processing is added; every other step of a batch, an
\* interruption included, leaves records and upload logs as they were.
C12_BatchAtomic ==
    [][(records' # records \/ upload_logs' # upload_logs) =>
           /\ batch.pc = "log"
           /\ batch'.pc = "committed"
           /\ \E st \in process_rows({Loop(records, 0, 0, <<>>, <<>>)}, batch.file,
                                      actual_columns(batch.file), 0) :
                  /\ records' = st.records
                  /\ upload_logs' = Append(upload_logs, upload_log(batch.file, st))]_vars

\* after one committed upload, a second one was interrupted inside its loop
\* with changed records in its transaction; none of them is visible
C12_Witness ==
    /\ batch.pc = "rolled_back"
    /\ batch.index \in 1..(Len(batch.file.rows) - 1)
    /\ batch.st.new_records + batch.st.updated_records > 0
    /\ batch.st.records # records
    /\ Len(upload_logs) = 1
    /\ records # <<>>

(***************************************************************************)
(* Properties of concurrent saves (SpecSavers)                             *)
(***************************************************************************)
\* every code the model draws is held by a row other than the saver's
PoolExhausted(s) ==
    \A code \in DrawnCodes : Others(records, savers[s].pk, "card_code", code) # {}

\* C19: when every code of the pool is held by other records, a save that
\* is looking for a card code terminates as a rejected save.
C19_ExhaustedPoolRejected ==
    (savers["first"].pc = "draw" /\ PoolExhausted("first"))
        ~> (savers["first"].pc = "rejected")

\* the two requests hold the same card code past the pre-check
SameCode(s, t) ==
    /\ savers[s].pc \in {"clean", "insert", "saved", "rejected"}
    /\ savers[t].pc \in {"clean", "insert", "saved", "rejected"}
    /\ savers[s].inst.card_code = savers[t].inst.card_code

\* C20: no two persisted records share a card_code, and of two concurrent
\* saves that passed the pre-check with the same code at most one is
\* persisted; the other, once ended, ended in a conflict error.
C20_UniqueConstraintBackstop ==
    /\ \A a, b \in DOMAIN records :
           a # b => records[a].card_code # records[b].card_code
    /\ \A s, t \in Savers :
           (s # t /\ SameCode(s, t) /\ savers[s].pc = "saved") =>
               /\ savers[t].pc # "saved"
               /\ savers[t].pc = "rejected" =>
                      savers[t].error \in {"ValidationError", "IntegrityError"}
               /\ \A pk \in DOMAIN records :
                      records[pk].card_code = savers[s].inst.card_code
                          <=> pk = savers[s].pk

\* both requests passed the pre-check and full_clean with the same code and
\* different numbers; one was inserted, the other's INSERT was refused
C20_Witness ==
    /\ SameCode("first", "second")
    /\ savers["first"].pc = "saved"
    /\ savers["second"].pc = "rejected"
    /\ savers["second"].error = "IntegrityError"
    /\ savers["first"].inst.mobile_number # savers["second"].inst.mobile_number
    /\ Cardinality(DOMAIN records) = 1

(***************************************************************************)
(* Properties of the sends (SpecSend)                                      *)
(***************************************************************************)
Running(t) == task[t].pc # "idle"

\* slot t takes this step
Steps(t) == task'[t] # task[t]

RowsWithId(rows, id) == {i \in DOMAIN rows : rows[i].id = id}

\* C14: every step of a forwarded send leaves every record as it was; the
\* dispatcher creates one Message row, which references the original record
\* and carries the recipient number and the recipient name (the placeholder
\* name when none was given); when the dispatcher returns, with success or
\* with failure, that row is the one row of the send.
C14_ForwardLeavesRecord ==
    [][\A t \in Slots :
          (Running(t) /\ task[t].op \in ForwardOps /\ Steps(t)) =>
              LET copy == task[t].queue[1]
                  to == task[t].to
              IN  /\ records' = records
                  /\ (task[t].pc = "call" /\ task'[t].pc = "pending") =>
                         /\ Len(messages') = Len(messages) + 1
                         /\ SubSeq(messages', 1, Len(messages)) = messages
                         /\ messages'[Len(messages')].id = task'[t].row
                         /\ RowsWithId(messages, task'[t].row) = {}
                  /\ task[t].pc = "pending" =>
                         /\ task'[t].pc = "returned"
                         /\ Len(messages') = Len(messages)
                         /\ \E i \in DOMAIN messages' :
                                /\ RowsWithId(messages', task[t].row) = {i}
                                /\ messages'[i].pledge_record = copy.pk
                                /\ messages'[i].recipient_mobile = to.number
                                /\ messages'[i].recipient_name
                                       = IF to.name = <<>> THEN ForwardedGuest ELSE to.name
                                /\ messages'[i].message_type = "forwarded"
                  /\ task[t].pc = "returned" => messages' = messages]_vars

\* a forward to another number and a named recipient has returned with
\* failure
C14_Witness ==
    /\ task["request"].pc = "returned"
    /\ task["request"].op = "forward_sms"
    /\ ~task["request"].success
    /\ task["request"].to.name = <<"G">>
    /\ LET pk == task["request"].queue[1].pk
       IN  /\ pk \in DOMAIN records
           /\ records[pk].mobile_number # task["request"].to.number
           /\ \E i \in DOMAIN messages :
                  /\ messages[i].pledge_record = pk
                  /\ messages[i].recipient_mobile = task["request"].to.number
                  /\ messages[i].status = "failed"

\* C15: every send attempt that reaches the provider, by the SMS
\* dispatchers or by the WhatsApp dispatcher, first creates exactly one
\* Message row, pending and linked to the record.
C15_OneRowPerAttempt ==
    [][Len(provider_log') > Len(provider_log) =>
           /\ Len(messages') = Len(messages) + 1
           /\ messages'[Len(messages')].status = "pending"
           /\ messages'[Len(messages')].pledge_record
                  = provider_log'[Len(provider_log')].pk]_vars

\* C16: a Message row is created pending, a row's status changes only from
\* pending to sent or failed, a sent or failed row never changes again;
\* when a send or forward returns its row is sent with the message id if
\* the provider call returned and failed with the error text if it raised;
\* a row is pending only while its provider call is outstanding.
C16_StatusMovesOnce ==
    [][/\ \A i \in DOMAIN messages, j \in DOMAIN messages' :
              messages[i].id = messages'[j].id =>
                  IF messages[i].status = "pending"
                  THEN messages'[j].status \in {"pending", "sent", "failed"}
                  ELSE messages'[j] = messages[i]
       /\ \A j \in DOMAIN messages' :
              RowsWithId(messages, messages'[j].id) = {} =>
                  messages'[j].status = "pending"
       /\ \A t \in Slots :
              (Running(t) /\ task[t].pc = "pending" /\ Steps(t)) =>
                  /\ task'[t].pc = "returned"
                  /\ \E j \in DOMAIN messages' :
                         /\ RowsWithId(messages', task[t].row) = {j}
                         /\ IF provider_log'[task[t].call].outcome = "returned"
                            THEN /\ messages'[j].status = "sent"
                                 /\ messages'[j].message_id # ""
                                 /\ messages'[j].error_message = ""
                            ELSE /\ messages'[j].status = "failed"
                                 /\ messages'[j].error_message # ""
                                 /\ messages'[j].message_id = ""
       /\ \A j \in DOMAIN messages' :
              messages'[j].status = "pending" =>
                  \E t \in Slots : /\ task'[t].pc = "pending"
                                    /\ task'[t].row = messages'[j].id]_vars

\* a bulk send has left one row sent and one row failed, none pending
C16_Witness ==
    /\ \A t \in Slots : task[t].pc = "idle"
    /\ \E i, j \in DOMAIN messages :
           /\ messages[i].status = "sent"
           /\ messages[j].status = "failed"
           /\ messages[i].pledge_record # messages[j].pledge_record
    /\ \A i \in DOMAIN messages : messages[i].status # "pending"

\* the provider accepted a call of the channel addressed to the record
Delivered(channel, pk) ==
    \E i \in DOMAIN provider_log :
        /\ provider_log[i].channel = channel
        /\ provider_log[i].pk = pk
        /\ provider_log[i].outcome = IF channel = "sms" THEN "returned" ELSE "ok"

Canonical(n) ==
    \/ /\ Len(n) = 10
       /\ n[1] = "0"
       /\ \A i \in 2..10 : n[i] \in UnicodeDigits
    \/ /\ Len(n) \in 3..16
       /\ n[1] = "+"
       /\ n[2] \in {"1", "2", "3", "4", "5", "6", "7", "8", "9"}
       /\ \A i \in 3..Len(n) : n[i] \in UnicodeDigits

\* C26: the mobile_number of every stored record is canonical, passes
\* validate_phone_number and is returned unchanged by format_phone_number;
\* update_phone_numbers updates no record and leaves the table as it was.
C26_StoredNumbersCanonical ==
    [][ /\ \A pk \in DOMAIN records' :
             LET n == records'[pk].mobile_number
             IN  /\ Canonical(n)
                 /\ validate_phone_number(n) = "ok"
                 /\ format_phone_number(n) = n
        /\ result'.op = "update_phone_numbers"
             => /\ records' = records
                /\ result'.updated = 0 ]_vars

C26_Witness ==
    /\ result.op = "update_phone_numbers"
    /\ \E pk \in DOMAIN records : records[pk].mobile_number = International
    /\ \E pk \in DOMAIN records : records[pk].mobile_number = Local

(***************************************************************************)
(* Validation before persistence (SpecStore)                               *)
(***************************************************************************)
\* a required field is missing, the normalized number has not the format, or
\* another record holds it
FailsValidation(recs, pk, mobile, name) ==
    LET n == IF mobile = <<>> THEN mobile ELSE format_phone_number(mobile)
    IN  \/ n = <<>>
        \/ name = <<>>
        \/ validate_phone_number(n) # "ok"
        \/ Held(recs, pk, n)

NotPersisted ==
    /\ ~result'.ok
    /\ result'.error = "ValidationError"
    /\ records' = records

\* C24: a PledgeRecord.save whose instance fails validation (a required
\* field, the number's format, uniqueness) raises a validation error and
\* leaves every stored record as it was; no save that raises a validation
\* error has written anything.
C24_ValidationBeforePersistence ==
    [][/\ \A f \in StoreInputs :
              (/\ result'.op = "create"
               /\ FailsValidation(records, NoPk, f.mobile_number, f.name)
               /\ create_record(f)) => NotPersisted
       /\ \A pk \in PKs, a \in StoreAssignments :
              (/\ result'.op = "save"
               /\ pk \in DOMAIN records
               /\ FailsValidation(records, pk, a[2], records[pk].name)
               /\ save_record(pk, a[1], a[2])) => NotPersisted
       /\ (result'.op \in {"create", "save", "edit"}
               /\ result'.error = "ValidationError") => records' = records]_vars

\* a create has been refused while one record is stored
C24_Witness ==
    /\ Cardinality(DOMAIN records) = 1
    /\ result.op = "create"
    /\ ~result.ok
    /\ result.error = "ValidationError"

(***************************************************************************)
(* Deleting a record (Spec)                                                *)
(***************************************************************************)
\* C23: deleting a record deletes the Message rows that reference it and
\* nothing else, so every Message row references a stored record;
\* the UploadLog rows are as they were before the deletion.
C23_DeleteCascades ==
    [][/\ \A i \in DOMAIN messages' : messages'[i].pledge_record \in DOMAIN records'
       /\ result'.op = "delete" =>
             /\ result'.pk \in DOMAIN records
             /\ records' = Remove(records, result'.pk)
             /\ Referencing(messages', result'.pk) = {}
             /\ Len(messages') = Len(messages)
                                    - Cardinality(Referencing(messages, result'.pk))
             /\ \A i \in DOMAIN messages' :
                    \E j \in DOMAIN messages : messages[j] = messages'[i]
             /\ upload_logs' = upload_logs]_vars

\* a record has been deleted together with its Message row while an
\* UploadLog row is stored
C23_Witness ==
    /\ result.op = "delete"
    /\ result.deleted = 2
    /\ messages = <<>>
    /\ upload_logs # <<>>

(***************************************************************************)
(* The UploadLog table (SpecBatch)                                         *)
(***************************************************************************)
\* the text is the entries in order with "; " between every two of them,
\* and empty when there are none
JoinedBy(text, entries) ==
    /\ Len(text) = IF Len(entries) = 0 THEN 0 ELSE 2 * Len(entries) - 1
    /\ \A k \in DOMAIN entries : text[2 * k - 1] = entries[k]
    /\ \A k \in 1..(Len(entries) - 1) : text[2 * k] = [text |-> "; "]

\* C25: an upload that commits adds exactly one UploadLog row, written
\* after the last row of the file was processed and made visible together
\* with the records of the upload; its filename and counts are those of the
\* returned report and its error text is the report's error entries joined
\* with '; '.  Nothing else changes the UploadLog table, and no step changes
\* or removes a row it already holds.
C25_OneLogPerUpload ==
    [][/\ Len(upload_logs') >= Len(upload_logs)
       /\ SubSeq(upload_logs', 1, Len(upload_logs)) = upload_logs
       /\ upload_logs' # upload_logs => (batch.pc = "log" /\ batch'.pc = "committed")
       /\ (batch.pc # "committed" /\ batch'.pc = "committed") =>
             LET row == upload_logs'[Len(upload_logs')]
                 returned == result'.report
             IN  /\ Len(upload_logs') = Len(upload_logs) + 1
                 /\ batch.index = Len(batch.file.rows)
                 /\ records' = batch.st.records
                 /\ row.filename = batch.file.filename
                 /\ row.total_records = returned.total_records
                 /\ row.total_records = Len(batch.file.rows)
                 /\ row.new_records = returned.new_records
                 /\ row.updated_records = returned.updated_records
                 /\ JoinedBy(row.errors, returned.errors)]_vars

\* a second upload has committed with two row errors, after a first one
\* under another file name without any
C25_Witness ==
    /\ batch.pc = "committed"
    /\ Len(upload_logs) = 2
    /\ upload_logs[1].errors = <<>>
    /\ upload_logs[1].filename # upload_logs[2].filename
    /\ Len(result.report.errors) = 2
    /\ Len(upload_logs[2].errors) = 3

(***************************************************************************)
(* The delay between sends (SpecSend)                                      *)
(***************************************************************************)
\* C21: a caller that loops over records takes them one at a time in the
\* order of its list, and after a dispatcher call that reached the provider
\* it goes on to the next record only from a delay step, whether the call
\* succeeded, failed or raised.
C21_DelayBetweenSends ==
    [][\A t \in Slots :
          (Running(t) /\ task[t].op \in LoopOps /\ Steps(t) /\ task'[t].pc # "idle") =>
              /\ task'[t].queue \in {task[t].queue, Tail(task[t].queue)}
              /\ (task[t].call # 0 /\ task'[t].queue # task[t].queue)
                     => task[t].pc = "sleep"]_vars

(***************************************************************************)
(* Saves from earlier copies (SpecSend)                                    *)
(***************************************************************************)
\* C27: once a stored record has normal_message_sent or whatsapp_sent true,
\* no step of a send, by a request or by a background worker, leaves the
\* stored flag false.
C27_SentFlagsMonotonic ==
    [][\A pk \in DOMAIN records \cap DOMAIN records' :
          /\ records[pk].normal_message_sent => records'[pk].normal_message_sent
          /\ records[pk].whatsapp_sent => records'[pk].whatsapp_sent]_vars

\* C28: no step of a send changes the stored name, pledge, paid, remaining
\* or card_capacity of a record, so what a form edit or an upload committed
\* while the send held its copy of the record is still stored after the
\* send has saved the record.
C28_SendKeepsRecordFields ==
    [][\A t \in Slots :
          Steps(t) =>
              \A pk \in DOMAIN records \cap DOMAIN records' :
                  \A f \in {"name", "pledge", "paid", "remaining", "card_capacity"} :
                      records'[pk][f] = records[pk][f]]_vars

(***************************************************************************)
(* Two background workers (SpecTwice)                                      *)
(***************************************************************************)
\* C29: the SMS provider accepts at most one call addressed to a record
\* from the 'send to all unsent' workers, also when a second worker was
\* started while the first was running.
C29_OneSmsPerRecord ==
    \A i, j \in DOMAIN provider_log :
        (/\ i # j
         /\ provider_log[i].channel = "sms"
         /\ provider_log[j].channel = "sms"
         /\ provider_log[i].pk = provider_log[j].pk)
            => ~(provider_log[i].outcome = "returned"
                    /\ provider_log[j].outcome = "returned")

(***************************************************************************)
(* The background worker (SpecWorker)                                      *)
(***************************************************************************)
\* the records the trigger of the worker's kind finds unsent
Unsent(op) ==
    {pk \in DOMAIN records :
        IF op = "background_sms" THEN ~records[pk].normal_message_sent
        ELSE ~records[pk].whatsapp_sent}

NonPlus(p) == p # <<>> /\ ~startswith(strip(p), <<"+">>)

DigitsOf(p) == SelectSeq(p, IsAsciiDigit)

Digits9to15(p) == Len(p) \in 9..15 /\ AllIn(p, UnicodeDigits)

\* C6: on every input of 9 to 15 digits, normalising the normalised number
\* gives the normalised number again.
C6_NormalizeIdempotent ==
    (phone_pc = "reformatted" /\ Digits9to15(phone_number))
        => reformatted = formatted

C6_Witness ==
    /\ phone_pc = "reformatted"
    /\ Digits9to15(phone_number)
    /\ Len(phone_number) = 12
    /\ formatted # phone_number
    /\ reformatted = formatted

\* C7: a non-empty input that does not start with '+' after trimming is
\* mapped to exactly 10 digits beginning with '0' ('0' + last 9 digits when
\* it is a 12-digit 255 number or otherwise longer than 10 digits once a
\* leading 0 is ensured, right-padded with '0' when shorter); a '+' input is
\* returned trimmed; an empty input is returned unchanged.
C7_FormatShape ==
    phone_pc = "formatted" =>
        LET p == phone_number
            d == DigitsOf(strip(p))
            z == IF Len(d) > 0 /\ d[1] = "0" THEN d ELSE <<"0">> \o d
            last9 == [i \in 1..9 |-> d[Len(d) - 9 + i]]
        IN  /\ p = <<>> => formatted = <<>>
            /\ (p # <<>> /\ ~NonPlus(p)) => formatted = strip(p)
            /\ NonPlus(p) =>
                  /\ Len(formatted) = 10
                  /\ formatted[1] = "0"
                  /\ AllIn(formatted, AsciiDigits)
                  /\ (Len(d) = 12 /\ SubSeq(d, 1, 3) = <<"2", "5", "5">>)
                        => formatted = <<"0">> \o last9
                  /\ (Len(z) > 10) => formatted = <<"0">> \o last9
                  /\ (Len(z) <= 10 /\ ~(Len(d) = 12))
                        => /\ SubSeq(formatted, 1, Len(z)) = z
                           /\ \A i \in (Len(z) + 1)..10 : formatted[i] = "0"

C7_Witness ==
    /\ phone_pc = "formatted"
    /\ NonPlus(phone_number)
    /\ Len(DigitsOf(phone_number)) = 11
    /\ SubSeq(DigitsOf(phone_number), 1, 3) = <<"2", "5", "5">>
    /\ formatted # phone_number

\* the inputs C8 describes as acceptable
Acceptable(p) ==
    /\ p # <<>>
    /\ LET t == strip(p)
       IN  \/ /\ Len(t) \in 3..16
              /\ t[1] = "+"
              /\ t[2] \in {"1", "2", "3", "4", "5", "6", "7", "8", "9"}
              /\ \A i \in 3..Len(t) : t[i] \in UnicodeDigits
           \/ /\ Len(t) = 10
              /\ t[1] = "0"
              /\ \A i \in 2..10 : t[i] \in UnicodeDigits

\* C8: validate_phone_number accepts exactly the non-empty inputs that,
\* trimmed, are '+' and 2 to 15 digits starting with 1-9, or '0' and exactly
\* 9 more digits; everything else raises a validation error.
C8_ValidateExact ==
    phone_pc = "validated" =>
        /\ verdict \in {"ok", "required", "invalid_international", "invalid_local"}
        /\ (verdict = "ok") <=> Acceptable(phone_number)

C8_Witness ==
    /\ phone_pc = "validated"
    /\ verdict = "invalid_local"
    /\ Len(strip(phone_number)) > 10
    /\ strip(phone_number)[1] = "0"
    /\ AllIn(strip(phone_number), AsciiDigits)

\* PledgeRecord(...).save() of the number into an empty table, every other
\* field valid
SavesNumber(p) ==
    \A out \in save(<<>>, 1, NewInstance(p, <<"A">>, Dec(100000, 0), Dec(0, 0), Zero)) :
        out.ok /\ out.records[1].mobile_number = format_phone_number(p)

\* C30: for every non-empty input whose trimmed form does not start with
\* '+', validate_phone_number accepts what format_phone_number returns, so
\* PledgeRecord.save does not reject the number, even when
\* validate_phone_number rejects the input itself (12345).
C30_FormatOutputValidates ==
    (phone_pc = "format_validated" /\ NonPlus(phone_number))
        => /\ verdict = "ok"
           /\ SavesNumber(phone_number)

C30_Witness ==
    /\ phone_pc = "format_validated"
    /\ phone_number = <<"1", "2", "3", "4", "5">>
    /\ validate_phone_number(phone_number) = "invalid_local"
    /\ formatted = <<"0", "1", "2", "3", "4", "5", "0", "0", "0", "0">>
    /\ verdict = "ok"

====
